---- MODULE Spec2Model ----
(***************************************************************************)
(* Authentication and session-security core of URAK (psx/app).             *)
(*                                                                         *)
(*   Spec       AuthenticationService (services/auth.py) on top of         *)
(*              UserRepository (models/user.py), JWTManager / CSRFManager  *)
(*              / SecurityValidator (core/security.py).                    *)
(*              Time unit: 12 hours.                                       *)
(*   SpecAudit  AuditLogger (services/audit.py).                           *)
(*              Time unit: 30 minutes.                                     *)
(*   SpecRetention  AuditLogger with cleanup_old_events and restarts.      *)
(*   SpecScan   the logs the sliding-window scan can meet.                 *)
(*   SpecSummary  AuditLogger.get_security_summary on logs of eleven IPs.  *)
(*   SpecLogout login and logout of the service alone, under a clock that  *)
(*              keeps the record of the last call.                         *)
(*   SpecJwt    JWTManager (core/security.py) on arbitrary claims maps.    *)
(*   SpecSessions  the session store with two users.                      *)
(*   SpecRegistry  the token registry, its sweep and the cleanup task of   *)
(*              main.py, over more than 48 hours.                          *)
(*   SpecInterleave  validate_token and login cut at an await, interleaved *)
(*              with revoke_session and logout_all_sessions.              *)
(*   SpecPool   DynamicThreadPool (core/thread_pool.py): the load monitor  *)
(*              and manual_adjust.  Time unit: 5 seconds.                  *)
(*                                                                         *)
(* Every handler is one atomic action, except in SpecInterleave, where a   *)
(* coroutine is one action per stretch between awaits.  Python's None is   *)
(* modelled by a sentinel of the field's type (NoTime, NoCsrf, NoSession). *)
(***************************************************************************)
EXTENDS Integers, Sequences, FiniteSets, TLC

VARIABLES
    now,                  \* wall clock (datetime.utcnow / datetime.now(timezone.utc))
    access_token_expire,  \* security_config.access_token_expire_minutes, loaded at start-up
    users,                \* table "users": user id -> row
    sessions,             \* table "user_sessions": session_id -> row
    next_session,         \* number of uuid4 session ids drawn so far
    active_tokens,        \* AuthenticationService._active_tokens
    issued,               \* LoginResponses / RefreshTokenResponses handed to clients
    login_logs,           \* table "login_logs", in insertion order
    result,               \* the call that produced the current state, and its return value
    events,               \* AuditLogger._events
    cleanup_task,         \* main.py: where the hourly cleanup task stands
    suspended,            \* coroutines of the service waiting at an await, with their locals
    pool                  \* DynamicThreadPool: _current_workers, _last_adjustment

vars == <<now, access_token_expire, users, sessions, next_session,
          active_tokens, issued, login_logs, result, events, cleanup_task,
          suspended, pool>>

authVars == <<access_token_expire, users, sessions, next_session,
              active_tokens, issued, login_logs, cleanup_task, suspended, pool>>

-----------------------------------------------------------------------------
(* Bounds of the model *)

MaxTime == 2          \* the clock stops here
MaxSessions == 2      \* successful logins in one run
MaxLoginLogs == 2     \* rows of login_logs in one run

-----------------------------------------------------------------------------
(* Program constants, in units of 12 hours *)

SessionTTL == 2       \* timedelta(hours=24)
RefreshTTL == 4       \* refresh_token_expire_hours = 48
TokenMaxAge == 4      \* timedelta(hours=48), the age at which the registry forgets

\* values the deployment may configure for the access-token lifetime
AccessExpireChoices == {1, 3}

NoTime == -1          \* None in a DateTime column
NoCsrf == 0           \* None in csrf_token
NoSession == 0        \* None where a session_id is expected
NoError == "-"        \* error_message = None

-----------------------------------------------------------------------------
(* Passwords are sequences of characters *)

P_ssw0rd1 == <<"P", "@", "s", "s", "w", "0", "r", "d", "1">>
N3w_Passw == <<"N", "3", "w", "_", "P", "a", "s", "s", "w">>
weak      == <<"w", "e", "a", "k">>
password1 == <<"p", "a", "s", "s", "w", "o", "r", "d", "1">>

\* what callers type: the right password and a wrong one; a weak and a strong new one
LoginPasswords == {P_ssw0rd1, password1}
NewPasswords == {weak, N3w_Passw}

UpperChars   == {"P", "N"}
LowerChars   == {"s", "w", "r", "d", "a", "e", "k", "p", "o"}
DigitChars   == {"0", "1", "3"}
SpecialChars == {"!", "@", "#", "$", "%", "^", "&", "*", "(", ")", "_", "+", "-", "=",
                 "[", "]", "{", "}", "|", ";", ":", ",", ".", "<", ">", "?"}

HasCharIn(password, S) == \E i \in 1..Len(password) : password[i] \in S

\* SecurityValidator.validate_password_strength: the list of errors, in order
validate_password_strength(password) ==
    (IF Len(password) < 8 THEN <<"Password must be at least 8 characters long">> ELSE <<>>)
    \o (IF ~HasCharIn(password, UpperChars)
        THEN <<"Password must contain at least one uppercase letter">> ELSE <<>>)
    \o (IF ~HasCharIn(password, LowerChars)
        THEN <<"Password must contain at least one lowercase letter">> ELSE <<>>)
    \o (IF ~HasCharIn(password, DigitChars)
        THEN <<"Password must contain at least one number">> ELSE <<>>)
    \o (IF ~HasCharIn(password, SpecialChars)
        THEN <<"Password must contain at least one special character">> ELSE <<>>)

\* pwd_context.hash / pwd_context.verify (bcrypt): a hash matches the password it was made of
pwd_hash(password) == [alg |-> "bcrypt", of |-> password]
pwd_verify(password, password_hash) == password_hash = pwd_hash(password)

-----------------------------------------------------------------------------
(* Users *)

UserIds == {"alice"}
Usernames == UserIds \cup {"mallory"}     \* mallory has no row

\* rows the repository may hold for a user
UserProfiles ==
    { [is_active |-> TRUE,  status |-> "active",    locked_until |-> NoTime],
      [is_active |-> FALSE, status |-> "active",    locked_until |-> NoTime],
      [is_active |-> TRUE,  status |-> "suspended", locked_until |-> NoTime],
      [is_active |-> TRUE,  status |-> "active",    locked_until |-> 1] }

UserRow(p) ==
    [is_active |-> p.is_active, status |-> p.status, locked_until |-> p.locked_until,
     password_hash |-> pwd_hash(P_ssw0rd1), salt |-> "salt0", last_login |-> NoTime]

\* User.can_login: <<allowed, reason>>
can_login(user) ==
    IF ~user.is_active THEN <<FALSE, "account disabled">>
    ELSE IF user.status # "active" THEN
        IF user.status = "suspended" THEN <<FALSE, "account suspended">>
        ELSE IF user.status = "pending" THEN <<FALSE, "account pending">>
        ELSE IF user.status = "inactive" THEN <<FALSE, "account inactive">>
        ELSE <<FALSE, "account status abnormal">>
    ELSE IF user.locked_until # NoTime /\ user.locked_until > now
        THEN <<FALSE, "account locked">>
    ELSE <<TRUE, "can login">>

\* Attributes of the objects the service holds.  A call of an async repository
\* method that is not awaited yields a coroutine object, not a row.
DBUserAttrs ==
    {"id", "username", "email", "password_hash", "salt", "role", "permissions", "status",
     "is_active", "last_login", "login_attempts", "locked_until", "password_changed_at",
     "two_factor_enabled", "two_factor_secret", "session_data", "can_login", "articles",
     "login_logs", "user_sessions", "created_at", "updated_at"}

CoroutineAttrs ==
    {"send", "throw", "close", "cr_await", "cr_code", "cr_frame", "cr_running", "cr_origin"}

\* UserRepository.get_user_by_id called without await: a coroutine object (truthy)
get_user_by_id_unawaited(user_id) == [kind |-> "coroutine", user_id |-> user_id]
\* await UserRepository.get_user_by_id: the row
get_user_by_id(user_id) == [kind |-> "DBUser", user_id |-> user_id]

\* attributes of the AuditLogger instance audit_logger
AuditLoggerAttrs ==
    {"log_path", "_events", "max_events_in_memory", "failed_login_threshold",
     "suspicious_activity_threshold", "_load_events", "_save_events", "log_event",
     "log_login_success", "log_login_failed", "log_logout", "log_access_denied",
     "log_csrf_attack", "log_rate_limit_exceeded", "log_password_change",
     "log_account_locked", "log_data_access", "log_security_violation",
     "_analyze_security_patterns", "_get_recent_events_by_ip", "get_events_by_user",
     "get_events_by_type", "get_security_summary", "cleanup_old_events"}

audit_logger == [kind |-> "AuditLogger"]

AttrsOf(obj) ==
    IF obj.kind = "DBUser" THEN DBUserAttrs
    ELSE IF obj.kind = "AuditLogger" THEN AuditLoggerAttrs
    ELSE CoroutineAttrs
\* obj.name raises AttributeError
RaisesAttributeError(obj, name) == name \notin AttrsOf(obj)

-----------------------------------------------------------------------------
(* Tokens *)

\* the names to_encode.update() writes
StandardFields == {"exp", "iat", "type", "iss", "aud"}

\* jwt.encode: the claims, signed with the service's key
jwt_encode(to_encode) ==
    [k \in DOMAIN to_encode \cup {"sig"} |-> IF k = "sig" THEN "good" ELSE to_encode[k]]

\* to_encode = data.copy(); to_encode.update(fields)
dict_update(data, fields) ==
    [k \in DOMAIN data \cup DOMAIN fields |->
        IF k \in DOMAIN fields THEN fields[k] ELSE data[k]]

\* the merge in which a key the caller supplied wins
dict_setdefault(data, fields) ==
    [k \in DOMAIN data \cup DOMAIN fields |->
        IF k \in DOMAIN data THEN data[k] ELSE fields[k]]

\* create_access_token that keeps a standard field the caller supplied
create_access_token_setdefault(data) ==
    jwt_encode(dict_setdefault(data,
        [exp |-> now + access_token_expire, iat |-> now, type |-> "access",
         iss |-> "URAK-AUTH-SERVICE", aud |-> "URAK-USERS"]))

\* JWTManager.create_access_token
create_access_token(data) ==
    jwt_encode(dict_update(data,
        [exp |-> now + access_token_expire, iat |-> now, type |-> "access",
         iss |-> "URAK-AUTH-SERVICE", aud |-> "URAK-USERS"]))

\* JWTManager.create_refresh_token
create_refresh_token(data) ==
    jwt_encode(dict_update(data,
        [exp |-> now + RefreshTTL, iat |-> now, type |-> "refresh",
         iss |-> "URAK-AUTH-SERVICE", aud |-> "URAK-USERS"]))

\* verify_token that does not look at payload["type"]
verify_token_any_type(token, token_type) ==
    /\ token.sig = "good"
    /\ token.exp > now
    /\ token.aud = "URAK-USERS"
    /\ token.iss = "URAK-AUTH-SERVICE"

\* JWTManager.verify_token: TRUE iff a payload is returned
verify_token(token, token_type) ==
    /\ token.sig = "good"
    /\ token.exp > now
    /\ token.aud = "URAK-USERS"
    /\ token.iss = "URAK-AUTH-SERVICE"
    /\ token.type = token_type

NoPayload == [none |-> TRUE]     \* verify_token returned None

\* JWTManager.verify_token: the payload jwt.decode returns, NoPayload for None
verify_token_payload(token, token_type) ==
    IF verify_token(token, token_type)
    THEN [k \in DOMAIN token \ {"sig"} |-> token[k]]
    ELSE NoPayload

\* CSRFManager.verify_csrf_token
verify_csrf_token(token, expected_token) == token = expected_token

\* what a client can present: every token it was given, and forgeries of them
IssuedTokens == {r.access_token : r \in issued} \cup {r.refresh_token : r \in issued}
Forged(token) == [token EXCEPT !.sig = "bad"]
\* a token the same key signed for another audience, or another issuer signed
OtherAudience(token) == [token EXCEPT !.aud = "URAK-ADMIN"]
OtherIssuer(token) == [token EXCEPT !.iss = "URAK-CMS"]
\* a string that is not a JWT
Malformed ==
    [type |-> "access", sub |-> "alice", session_id |-> 0, iat |-> 0, exp |-> 0,
     iss |-> "", aud |-> "", sig |-> "malformed"]
PresentableTokens ==
    IssuedTokens \cup {Malformed}
    \cup {Forged(r.access_token) : r \in issued}
    \cup {OtherAudience(r.access_token) : r \in issued}
    \cup {OtherIssuer(r.refresh_token) : r \in issued}
\* the X-CSRF-Token header of a request that must carry one
PresentableCsrf == {NoCsrf} \cup {r.csrf_token : r \in issued}

-----------------------------------------------------------------------------
(* Session store: UserRepository on table user_sessions *)

\* get_session without the expires_at condition of its WHERE clause
get_session_unexpiring(session_id) ==
    IF session_id \in DOMAIN sessions /\ sessions[session_id].is_active = TRUE
    THEN {session_id} ELSE {}

\* UserRepository.get_session: the rows the SELECT returns ({} for None)
get_session(session_id) ==
    IF /\ session_id \in DOMAIN sessions
       /\ sessions[session_id].is_active = TRUE
       /\ sessions[session_id].expires_at > now
    THEN {session_id} ELSE {}

\* a cleanup that deletes what its first, unused query selects: the user's
\* expired sessions and their revoked ones
cleanup_expired_or_inactive_sessions(user_id) ==
    {sid \in DOMAIN sessions :
        ~(/\ sessions[sid].user_id = user_id
          /\ (sessions[sid].expires_at <= now \/ ~sessions[sid].is_active))}

\* UserRepository._cleanup_expired_sessions: the rows that survive the DELETE
cleanup_expired_sessions(user_id) ==
    {sid \in DOMAIN sessions :
        ~(sessions[sid].user_id = user_id /\ sessions[sid].expires_at <= now)}

\* UserRepository.update_session after session.last_activity = now:
\* the UPDATE writes the one attribute that was set
update_session(session_id) == [sessions EXCEPT ![session_id].last_activity = now]

\* UserRepository.authenticate_user: "raise", "none" or "user"
authenticate_user_result(username, password) ==
    IF username \notin DOMAIN users THEN "raise"   \* LoginLog.user_id is NOT NULL
    ELSE IF ~users[username].is_active \/ users[username].status # "active" THEN "none"
    ELSE IF ~pwd_verify(password, users[username].password_hash) THEN "none"
    ELSE "user"

\* the LoginLog row authenticate_user commits
LoginLog(username, password) ==
    [user_id |-> username,
     success |-> authenticate_user_result(username, password) = "user",
     failure_reason |->
        IF ~users[username].is_active \/ users[username].status # "active"
        THEN "user disabled"
        ELSE IF ~pwd_verify(password, users[username].password_hash)
        THEN "wrong password"
        ELSE NoError,
     created_at |-> now]

\* table login_logs after authenticate_user: the commit of a row without user_id
\* fails and is rolled back
authenticate_user_logs(username, password) ==
    IF authenticate_user_result(username, password) = "raise" THEN login_logs
    ELSE Append(login_logs, LoginLog(username, password))

\* table users after authenticate_user
authenticate_user_users(username, password) ==
    IF authenticate_user_result(username, password) = "user"
    THEN [users EXCEPT ![username].last_login = now]
    ELSE users

\* UserRepository.authenticate_user
authenticate_user(username, password) ==
    /\ Len(authenticate_user_logs(username, password)) <= MaxLoginLogs
    /\ login_logs' = authenticate_user_logs(username, password)
    /\ users' = authenticate_user_users(username, password)
    /\ result' = [op |-> "authenticate_user", username |-> username,
                  password |-> password,
                  returned |-> authenticate_user_result(username, password)]
    /\ UNCHANGED <<now, suspended, pool, cleanup_task, access_token_expire, sessions, next_session, active_tokens,
                   issued, events>>

-----------------------------------------------------------------------------
(* Exceptions *)

NoException == "none"

\* the classes derived from Exception among those the model raises
ExceptionSubclasses == {"AttributeError", "IntegrityError", "TypeError"}

\* a handler clause that catches token errors only
except_InvalidTokenError(exc) == exc \in {"InvalidTokenError", "ExpiredSignatureError"}

\* "except Exception": the clause catches exc
except_Exception(exc) == exc \in ExceptionSubclasses

\* exc, raised inside a try block whose only clause is "except Exception",
\* reaches the caller
escapes(exc) == exc # NoException /\ ~except_Exception(exc)

-----------------------------------------------------------------------------
(* AuthenticationService *)

Invalid(msg, touched) == [valid |-> FALSE, error_message |-> msg, touched |-> touched]

\* validate_token that never looks at the CSRF token
validate_token_result_no_csrf(token, require_csrf, csrf_token) ==
    IF token \in DOMAIN active_tokens /\ active_tokens[token].blacklisted
    THEN Invalid("Token has been revoked", NoSession)
    ELSE IF ~verify_token(token, "access")
    THEN Invalid("Invalid or expired token", NoSession)
    ELSE IF token.sub \notin DOMAIN users
    THEN Invalid("User not found", NoSession)
    ELSE IF ~can_login(users[token.sub])[1]
    THEN Invalid(can_login(users[token.sub])[2], NoSession)
    ELSE IF token.session_id = NoSession
    THEN [valid |-> TRUE, error_message |-> NoError, touched |-> NoSession]
    ELSE IF get_session(token.session_id) = {}
    THEN Invalid("Session is invalid or expired", NoSession)
    ELSE [valid |-> TRUE, error_message |-> NoError, touched |-> token.session_id]

\* AuthenticationService.validate_token: the return value and the session it touched
validate_token_result(token, require_csrf, csrf_token) ==
    IF token \in DOMAIN active_tokens /\ active_tokens[token].blacklisted
    THEN Invalid("Token has been revoked", NoSession)
    ELSE IF ~verify_token(token, "access")
    THEN Invalid("Invalid or expired token", NoSession)
    ELSE IF token.sub \notin DOMAIN users
    THEN Invalid("User not found", NoSession)
    ELSE IF ~can_login(users[token.sub])[1]
    THEN Invalid(can_login(users[token.sub])[2], NoSession)
    ELSE IF token.session_id = NoSession
    THEN [valid |-> TRUE, error_message |-> NoError, touched |-> NoSession]
    ELSE IF get_session(token.session_id) = {}
    THEN Invalid("Session is invalid or expired", NoSession)
    ELSE IF require_csrf /\ (csrf_token = NoCsrf
                             \/ sessions[token.session_id].csrf_token = NoCsrf)
    THEN Invalid("CSRF token required", token.session_id)
    ELSE IF require_csrf
            /\ ~verify_csrf_token(csrf_token, sessions[token.session_id].csrf_token)
    THEN Invalid("Invalid CSRF token", token.session_id)
    ELSE [valid |-> TRUE, error_message |-> NoError, touched |-> token.session_id]

Touched(r) == IF r.touched = NoSession THEN sessions ELSE update_session(r.touched)

validate_token(token, require_csrf, csrf_token) ==
    LET r == validate_token_result(token, require_csrf, csrf_token) IN
    /\ sessions' = Touched(r)
    /\ result' = [op |-> "validate_token", token |-> token, require_csrf |-> require_csrf,
                  csrf_token |-> csrf_token, valid |-> r.valid,
                  error_message |-> r.error_message,
                  raised |-> NoException, escaped |-> escapes(NoException)]
    /\ UNCHANGED <<now, suspended, pool, cleanup_task, access_token_expire, users, next_session, active_tokens,
                   issued, login_logs, events>>

\* a login that hands the access token out without recording it
track_token_nowhere(access_token, user_id, session_id) == active_tokens

\* a registry write that also stamps the user's older entries with the current time
track_token_restamping(access_token, user_id, session_id) ==
    [t \in DOMAIN active_tokens \cup {access_token} |->
        IF t = access_token
        THEN [user_id |-> user_id, session_id |-> session_id,
              created_at |-> now, blacklisted |-> FALSE]
        ELSE IF active_tokens[t].user_id = user_id
        THEN [active_tokens[t] EXCEPT !.created_at = now]
        ELSE active_tokens[t]]

\* self._active_tokens[access_token] = {...}: the entry has no "blacklisted" key yet,
\* which reads as not blacklisted
track_token(access_token, user_id, session_id) ==
    [t \in DOMAIN active_tokens \cup {access_token} |->
        IF t = access_token
        THEN [user_id |-> user_id, session_id |-> session_id,
              created_at |-> now, blacklisted |-> FALSE]
        ELSE active_tokens[t]]

\* the csrf_token column login writes to the session row: login sets the attribute
\* on the detached object and then saves the user, not the session
login_stored_csrf(csrf_token) == NoCsrf

\* AuthenticationService.login
login(username, password) ==
    LET auth == authenticate_user_result(username, password)
        raised == IF auth = "raise" THEN "IntegrityError" ELSE NoException
        sid == next_session + 1
        csrf_token == sid            \* secrets.token_urlsafe: a value never drawn before
        access_token == create_access_token([sub |-> username, session_id |-> sid])
        refresh_token == create_refresh_token([sub |-> username, session_id |-> sid])
    IN
    IF auth # "user"
    THEN /\ Len(authenticate_user_logs(username, password)) <= MaxLoginLogs
         /\ login_logs' = authenticate_user_logs(username, password)
         /\ result' = [op |-> "login", username |-> username, password |-> password,
                       success |-> FALSE,
                       error_message |-> IF raised # NoException THEN "Login failed"
                                         ELSE "Authentication failed",
                       raised |-> raised, escaped |-> escapes(raised)]
         /\ UNCHANGED <<now, suspended, pool, cleanup_task, access_token_expire, users, sessions, next_session,
                        active_tokens, issued, events>>
    ELSE /\ next_session < MaxSessions
         /\ Len(authenticate_user_logs(username, password)) <= MaxLoginLogs
         /\ login_logs' = authenticate_user_logs(username, password)
         /\ users' = authenticate_user_users(username, password)
         /\ sessions' =
                [s \in cleanup_expired_sessions(username) \cup {sid} |->
                    IF s = sid
                    THEN [user_id |-> username, is_active |-> TRUE,
                          expires_at |-> now + SessionTTL,
                          csrf_token |-> login_stored_csrf(csrf_token),
                          last_activity |-> now]
                    ELSE sessions[s]]
         /\ next_session' = sid
         /\ active_tokens' = track_token(access_token, username, sid)
         /\ issued' = issued \cup
                {[access_token |-> access_token, refresh_token |-> refresh_token,
                  csrf_token |-> csrf_token, session_id |-> sid, user_id |-> username,
                  by |-> "login"]}
         /\ result' = [op |-> "login", username |-> username, password |-> password,
                       success |-> TRUE, error_message |-> NoError,
                       raised |-> raised, escaped |-> escapes(raised),
                       access_token |-> access_token, refresh_token |-> refresh_token,
                       csrf_token |-> csrf_token, session_id |-> sid]
         /\ UNCHANGED <<now, suspended, pool, cleanup_task, access_token_expire, events>>

\* refresh_token that goes on to mint tokens once the refresh token verifies
refresh_token_error_verify_only(token) ==
    IF ~verify_token(token, "refresh") THEN "Invalid or expired refresh token"
    ELSE NoError

\* AuthenticationService.refresh_token: the error it returns, NoError on success.
\* The method is synchronous: the repository lookup is not awaited.
refresh_token_error(token) ==
    LET user == get_user_by_id_unawaited(token.sub) IN
    IF ~verify_token(token, "refresh") THEN "Invalid or expired refresh token"
    ELSE IF RaisesAttributeError(user, "can_login") THEN "Token refresh failed"
    ELSE IF ~can_login(users[token.sub])[1] THEN can_login(users[token.sub])[2]
    ELSE IF token.session_id # NoSession /\ RaisesAttributeError(user, "get_session")
    THEN "Token refresh failed"
    ELSE NoError

\* AuthenticationService.refresh_token
refresh_token(token) ==
    LET err == refresh_token_error(token)
        raised == IF err = "Token refresh failed" THEN "AttributeError" ELSE NoException
        new_access_token ==
            create_access_token([sub |-> token.sub, session_id |-> token.session_id])
        new_refresh_token ==
            create_refresh_token([sub |-> token.sub, session_id |-> token.session_id])
    IN
    IF err # NoError
    THEN /\ result' = [op |-> "refresh_token", token |-> token, success |-> FALSE,
                       error_message |-> err,
                       raised |-> raised, escaped |-> escapes(raised)]
         /\ UNCHANGED <<now, authVars, events>>
    ELSE /\ active_tokens' = track_token(new_access_token, token.sub, token.session_id)
         /\ issued' = issued \cup
                {[access_token |-> new_access_token, refresh_token |-> new_refresh_token,
                  csrf_token |-> NoCsrf, session_id |-> token.session_id,
                  user_id |-> token.sub, by |-> "refresh_token"]}
         /\ result' = [op |-> "refresh_token", token |-> token, success |-> TRUE,
                       error_message |-> NoError,
                       raised |-> raised, escaped |-> escapes(raised),
                       access_token |-> new_access_token,
                       refresh_token |-> new_refresh_token]
         /\ UNCHANGED <<now, suspended, pool, cleanup_task, access_token_expire, users, sessions, next_session, login_logs,
                        events>>

\* a logout that ends every session of the token's user and blacklists all
\* their tokens
logout_everywhere(token) ==
    LET v == validate_token_result(token, FALSE, NoCsrf) IN
    /\ sessions' = IF v.valid
                   THEN [s \in DOMAIN sessions |->
                            IF sessions[s].user_id = token.sub
                            THEN [sessions[s] EXCEPT !.is_active = FALSE]
                            ELSE sessions[s]]
                   ELSE sessions
    /\ active_tokens' = IF v.valid
                        THEN [t \in DOMAIN active_tokens |->
                                IF active_tokens[t].user_id = token.sub
                                THEN [active_tokens[t] EXCEPT !.blacklisted = TRUE]
                                ELSE active_tokens[t]]
                        ELSE active_tokens
    /\ result' = [op |-> "logout", token |-> token, accepted |-> v.valid,
                  success |-> v.valid,
                  raised |-> NoException, escaped |-> FALSE]
    /\ UNCHANGED <<now, suspended, pool, cleanup_task, access_token_expire, users, next_session, issued,
                   login_logs, events>>

\* AuthenticationService.logout: validate, invalidate the session, blacklist
logout(token) ==
    LET v == validate_token_result(token, FALSE, NoCsrf)
        user == get_user_by_id(token.sub)        \* validation_result.user
        raised == /\ v.valid
                  /\ token.session_id # NoSession
                  /\ RaisesAttributeError(user, "invalidate_session")
        returned == v.valid /\ ~raised
        exc == IF raised THEN "AttributeError" ELSE NoException
    IN
    /\ sessions' = Touched(v)
    /\ active_tokens' =
            IF returned /\ token \in DOMAIN active_tokens
            THEN [active_tokens EXCEPT ![token].blacklisted = TRUE]
            ELSE active_tokens
    /\ result' = [op |-> "logout", token |-> token, accepted |-> v.valid,
                  success |-> returned,
                  raised |-> exc, escaped |-> escapes(exc)]
    /\ UNCHANGED <<now, suspended, pool, cleanup_task, access_token_expire, users, next_session, issued, login_logs,
                   events>>

\* AuthenticationService.logout_all_sessions (synchronous, lookup not awaited)
logout_all_sessions(user_id) ==
    LET user == get_user_by_id_unawaited(user_id)
        raised == RaisesAttributeError(user, "invalidate_all_sessions")
        exc == IF raised THEN "AttributeError" ELSE NoException
    IN
    /\ active_tokens' =
            IF raised THEN active_tokens
            ELSE [t \in DOMAIN active_tokens |->
                    IF active_tokens[t].user_id = user_id
                    THEN [active_tokens[t] EXCEPT !.blacklisted = TRUE]
                    ELSE active_tokens[t]]
    /\ result' = [op |-> "logout_all_sessions", user_id |-> user_id, success |-> ~raised,
                  raised |-> exc, escaped |-> escapes(exc)]
    /\ UNCHANGED <<now, suspended, pool, cleanup_task, access_token_expire, users, sessions, next_session, issued,
                   login_logs, events>>

\* PasswordManager.hash_password_pbkdf2 / verify_password_pbkdf2
hash_password_pbkdf2(password, salt) == [alg |-> "pbkdf2", of |-> password, salt |-> salt]
verify_password_pbkdf2(password, hashed_password, salt) ==
    hashed_password = hash_password_pbkdf2(password, salt)

\* AuthenticationService.change_password: <<success, message>>, the message as the
\* list of parts joined with "; ".  Synchronous, lookup not awaited.
change_password_result(user_id, old_password, new_password) ==
    LET user == get_user_by_id_unawaited(user_id) IN
    IF RaisesAttributeError(user, "password_hash")
    THEN <<FALSE, <<"Password change failed">> >>
    ELSE IF ~verify_password_pbkdf2(old_password, users[user_id].password_hash,
                                    users[user_id].salt)
    THEN <<FALSE, <<"Current password is incorrect">> >>
    ELSE IF validate_password_strength(new_password) # <<>>
    THEN <<FALSE, validate_password_strength(new_password)>>
    ELSE IF RaisesAttributeError(user, "invalidate_all_sessions")
    THEN <<FALSE, <<"Password change failed">> >>
    ELSE <<TRUE, <<"Password changed successfully">> >>

change_password(user_id, old_password, new_password) ==
    LET r == change_password_result(user_id, old_password, new_password)
        raised == IF r[2] = <<"Password change failed">> THEN "AttributeError"
                  ELSE NoException
    IN
    /\ users' = IF r[1]
                THEN [users EXCEPT
                        ![user_id].password_hash = hash_password_pbkdf2(new_password, "salt1"),
                        ![user_id].salt = "salt1"]
                ELSE users
    /\ result' = [op |-> "change_password", user_id |-> user_id,
                  old_password |-> old_password, new_password |-> new_password,
                  success |-> r[1], message |-> r[2],
                  raised |-> raised, escaped |-> escapes(raised)]
    /\ UNCHANGED <<now, suspended, pool, cleanup_task, access_token_expire, sessions, next_session, active_tokens,
                   issued, login_logs, events>>

\* a revocation that deletes the row
revoke_session_deleting(session_id) ==
    /\ sessions' = [s \in DOMAIN sessions \ {session_id} |-> sessions[s]]
    /\ result' = [op |-> "revoke_session", session_id |-> session_id,
                  success |-> session_id \in DOMAIN sessions]
    /\ UNCHANGED <<now, suspended, pool, cleanup_task, access_token_expire, users, next_session, active_tokens,
                   issued, login_logs, events>>

\* UserRepository.revoke_session
revoke_session(session_id) ==
    /\ sessions' = IF session_id \in DOMAIN sessions
                   THEN [sessions EXCEPT ![session_id].is_active = FALSE]
                   ELSE sessions
    /\ result' = [op |-> "revoke_session", session_id |-> session_id,
                  success |-> session_id \in DOMAIN sessions]
    /\ UNCHANGED <<now, suspended, pool, cleanup_task, access_token_expire, users, next_session, active_tokens,
                   issued, login_logs, events>>

\* a sweep that also drops the entries that are exactly 48 hours old
expired_tokens_inclusive(registry) ==
    {t \in DOMAIN registry : now - registry[t].created_at >= TokenMaxAge}

\* cleanup_expired_tokens, first loop: the tokens older than 48 hours
expired_tokens(registry) ==
    {t \in DOMAIN registry : now - registry[t].created_at > TokenMaxAge}

\* cleanup_expired_tokens, second loop: del self._active_tokens[token]
swept(registry) == [t \in DOMAIN registry \ expired_tokens(registry) |-> registry[t]]

\* the method has no return statement
cleanup_expired_tokens_returns == "None"

\* AuthenticationService.cleanup_expired_tokens
cleanup_expired_tokens ==
    /\ active_tokens' = swept(active_tokens)
    /\ result' = [op |-> "cleanup_expired_tokens",
                  removed |-> expired_tokens(active_tokens),
                  returned |-> cleanup_expired_tokens_returns]
    /\ UNCHANGED <<now, suspended, pool, cleanup_task, access_token_expire, users, sessions, next_session,
                   issued, login_logs, events>>

\* time passes
Tick ==
    /\ now < MaxTime
    /\ now' = now + 1
    /\ result' = [op |-> "tick"]
    /\ UNCHANGED <<authVars, events>>

-----------------------------------------------------------------------------
(* AuditLogger: events and pattern analysis *)

failed_login_threshold == 5
FailedLoginWindow == 1       \* minutes=30

IPs == {"203.0.113.5", "10.0.0.2"}

\* AuditEvent, with details.failure_count (0 when the details carry none)
AuditEvent(event_type, severity, result_, ip_address, failure_count) ==
    [event_type |-> event_type, severity |-> severity, result |-> result_,
     ip_address |-> ip_address, timestamp |-> now, failure_count |-> failure_count]

\* a filter that looks at the event type alone
event_matches_any_ip(event, ip_address, event_type) == event.event_type = event_type

\* event.ip_address == ip_address and event.event_type == event_type
event_matches(event, ip_address, event_type) ==
    event.ip_address = ip_address /\ event.event_type = event_type

\* AuditLogger._get_recent_events_by_ip: the scan from the newest event backwards,
\* from position i, stopping at the first event older than the cutoff
RECURSIVE scan_recent_events(_, _, _, _, _)
scan_recent_events(evs, i, ip_address, event_type, cutoff_time) ==
    IF i = 0 THEN << >>
    ELSE IF evs[i].timestamp < cutoff_time THEN << >>
    ELSE (IF event_matches(evs[i], ip_address, event_type)
          THEN <<evs[i]>> ELSE << >>)
         \o scan_recent_events(evs, i - 1, ip_address, event_type, cutoff_time)

\* a scan whose cutoff lies one time unit too late
get_recent_events_by_ip_short_window(evs, ip_address, event_type, minutes) ==
    scan_recent_events(evs, Len(evs), ip_address, event_type, now - minutes + 1)

get_recent_events_by_ip(evs, ip_address, event_type, minutes) ==
    scan_recent_events(evs, Len(evs), ip_address, event_type, now - minutes)

\* the threshold test with > for >=
threshold_met_strict(recent_failures) == Len(recent_failures) > failed_login_threshold

\* len(recent_failures) >= self.failed_login_threshold
threshold_met(recent_failures) == Len(recent_failures) >= failed_login_threshold

\* the count taken without the event that triggered the analysis
failure_count_before(recent_failures) == Len(recent_failures) - 1

\* details["failure_count"] of the derived event
failure_count_of(recent_failures) == Len(recent_failures)

\* a log that takes new events at its head
append_event_front(evs, event) == <<event>> \o evs

\* self._events.append(event)
append_event(evs, event) == Append(evs, event)

\* AuditLogger.log_event: the log after the call.  The event is appended, then
\* _analyze_security_patterns runs on it and may log a derived event the same way.
RECURSIVE log_event(_, _)
log_event(evs, event) ==
    LET appended == append_event(evs, event)
        recent_failures == get_recent_events_by_ip(appended, event.ip_address,
                                                   "login_failed", FailedLoginWindow)
    IN
    IF event.event_type = "login_failed" /\ threshold_met(recent_failures)
    THEN log_event(appended,
                   AuditEvent("suspicious_activity", "high", "detected", event.ip_address,
                              failure_count_of(recent_failures)))
    ELSE appended

-----------------------------------------------------------------------------
(* API layer (api/auth.py): the callers of the service that hold request context *)

ClientIP == "203.0.113.5"

\* auth_service.login(...) and auth_service.validate_token(...) are async; the
\* endpoints call them without await and get coroutine objects
login_unawaited(username) == [kind |-> "coroutine", of |-> "login"]
validate_token_unawaited(token) == [kind |-> "coroutine", of |-> "validate_token"]

\* POST /api/auth/login
api_login(username, password) ==
    LET login_response == login_unawaited(username)
        success == authenticate_user_result(username, password) = "user"
    IN
    IF RaisesAttributeError(login_response, "success")
    THEN /\ result' = [op |-> "api_login", username |-> username, password |-> password,
                       status |-> 500, raised |-> "AttributeError"]
         /\ UNCHANGED <<now, authVars, events>>
    ELSE /\ events' = log_event(events,
                IF success
                THEN AuditEvent("login_success", "low", "success", ClientIP, 0)
                ELSE AuditEvent("login_failed", "medium", "failed", ClientIP, 0))
         /\ result' = [op |-> "api_login", username |-> username, password |-> password,
                       status |-> IF success THEN 200 ELSE 401, raised |-> NoException]
         /\ UNCHANGED <<now, authVars>>

\* get_current_user, the dependency of every protected endpoint; has_request is
\* whether the caller passed the Request
get_current_user(token, has_request) ==
    LET validation_result == validate_token_unawaited(token)
        v == validate_token_result(token, FALSE, NoCsrf)
    IN
    IF RaisesAttributeError(validation_result, "valid")
    THEN /\ result' = [op |-> "get_current_user", token |-> token,
                       has_request |-> has_request, status |-> 500,
                       raised |-> "AttributeError"]
         /\ UNCHANGED <<now, authVars, events>>
    ELSE IF v.valid
    THEN /\ result' = [op |-> "get_current_user", token |-> token,
                       has_request |-> has_request, status |-> 200,
                       raised |-> NoException]
         /\ UNCHANGED <<now, authVars, events>>
    ELSE IF has_request /\ RaisesAttributeError(audit_logger, "AuditEventType")
    THEN /\ result' = [op |-> "get_current_user", token |-> token,
                       has_request |-> has_request, status |-> 500,
                       raised |-> "AttributeError"]
         /\ UNCHANGED <<now, authVars, events>>
    ELSE /\ events' = IF has_request
                      THEN log_event(events,
                               AuditEvent("access_denied", "medium", "failed", ClientIP, 0))
                      ELSE events
         /\ result' = [op |-> "get_current_user", token |-> token,
                       has_request |-> has_request, status |-> 401,
                       raised |-> NoException]
         /\ UNCHANGED <<now, authVars>>

-----------------------------------------------------------------------------
(* DynamicThreadPool (core/thread_pool.py).  Time unit in SpecPool: 5 seconds. *)
(* The monitor task and the adjust endpoint both run on the event loop and    *)
(* _adjust_pool_size has no await, so a call is one step.                     *)

THREAD_POOL_MIN_WORKERS == 2
THREAD_POOL_MAX_WORKERS == 32
CPU_THRESHOLD_HIGH == 80
CPU_THRESHOLD_LOW == 30
MEMORY_THRESHOLD_HIGH == 85
adjustment_cooldown == 2      \* 10 seconds
LOAD_MONITOR_INTERVAL == 6    \* 30 seconds

MaxPoolTime == 9      \* the clock of SpecPool stops here

\* time.time() at start-up is far more than the cooldown past _last_adjustment = 0
PoolStart == adjustment_cooldown

Smaller(a, b) == IF a < b THEN a ELSE b
Larger(a, b) == IF a > b THEN a ELSE b

\* __init__: the pool starts at the minimum size; the monitor runs its first
\* cycle as soon as it is started
NewPool ==
    [current_workers |-> THREAD_POOL_MIN_WORKERS,
     last_adjustment |-> 0,
     monitor_wake |-> 0,
     adjustments |-> << >>]

CpuReadings == {20, 50, 90}
MemoryReadings == {20, 50, 90}
PendingReadings == {0, 1}
ManualSizes == {1, 2, 3, 31, 32, 33}

should_scale_up(p, metrics) ==
    IF p.current_workers >= THREAD_POOL_MAX_WORKERS
    THEN FALSE
    ELSE /\ (metrics.cpu_percent > CPU_THRESHOLD_HIGH
                \/ metrics.memory_percent > MEMORY_THRESHOLD_HIGH)
         /\ metrics.pending_tasks > 0

should_scale_down(p, metrics) ==
    IF p.current_workers <= THREAD_POOL_MIN_WORKERS
    THEN FALSE
    ELSE /\ (metrics.cpu_percent < CPU_THRESHOLD_LOW
                /\ metrics.memory_percent < CPU_THRESHOLD_LOW)
         /\ metrics.pending_tasks = 0

cooling_down_short(p, current_time) ==
    current_time - p.last_adjustment < adjustment_cooldown - 1

cooling_down(p, current_time) ==
    current_time - p.last_adjustment < adjustment_cooldown

adjust_pool_size(p, new_size, reason, current_time) ==
    IF cooling_down(p, current_time)
    THEN p
    ELSE IF new_size = p.current_workers
    THEN p
    ELSE LET size == Larger(THREAD_POOL_MIN_WORKERS,
                            Smaller(new_size, THREAD_POOL_MAX_WORKERS))
         IN  [p EXCEPT !.current_workers = size,
                       !.last_adjustment = current_time,
                       !.adjustments = Append(@, [at |-> current_time,
                                                  old_size |-> p.current_workers,
                                                  new_size |-> size,
                                                  reason |-> reason])]

\* one turn of the loop of _monitor_system_load, up to its sleep
monitor_system_load(cpu_percent, memory_percent, pending_tasks) ==
    /\ now >= pool.monitor_wake
    /\ LET metrics == [cpu_percent |-> cpu_percent,
                       memory_percent |-> memory_percent,
                       pending_tasks |-> pending_tasks]
           adjusted ==
               IF should_scale_up(pool, metrics)
               THEN adjust_pool_size(pool,
                        Smaller(pool.current_workers + 2, THREAD_POOL_MAX_WORKERS),
                        "scale_up", now)
               ELSE IF should_scale_down(pool, metrics)
               THEN adjust_pool_size(pool,
                        Larger(pool.current_workers - 1, THREAD_POOL_MIN_WORKERS),
                        "scale_down", now)
               ELSE pool
       IN  /\ pool' = [adjusted EXCEPT !.monitor_wake = now + LOAD_MONITOR_INTERVAL]
           /\ result' = [op |-> "monitor_system_load", metrics |-> metrics]
    /\ UNCHANGED <<now, suspended, cleanup_task, access_token_expire, users, sessions,
                   next_session, active_tokens, issued, login_logs, events>>

manual_adjust(new_size) ==
    /\ IF ~(THREAD_POOL_MIN_WORKERS <= new_size /\ new_size <= THREAD_POOL_MAX_WORKERS)
       THEN /\ pool' = pool
            /\ result' = [op |-> "manual_adjust", new_size |-> new_size,
                          returned |-> FALSE]
       ELSE /\ pool' = adjust_pool_size(pool, new_size, "manual", now)
            /\ result' = [op |-> "manual_adjust", new_size |-> new_size,
                          returned |-> TRUE]
    /\ UNCHANGED <<now, suspended, cleanup_task, access_token_expire, users, sessions,
                   next_session, active_tokens, issued, login_logs, events>>

PoolTick ==
    /\ now < MaxPoolTime
    /\ now' = now + 1
    /\ result' = [op |-> "tick"]
    /\ UNCHANGED <<authVars, events>>

InitPool ==
    /\ now = PoolStart
    /\ access_token_expire = 1
    /\ users = << >>
    /\ sessions = << >>
    /\ next_session = 0
    /\ active_tokens = << >>
    /\ issued = {}
    /\ login_logs = << >>
    /\ result = [op |-> "none"]
    /\ events = << >>
    /\ cleanup_task = "sleeping"
    /\ suspended = {}
    /\ pool = NewPool

NextPool ==
    \/ \E cpu_percent \in CpuReadings, memory_percent \in MemoryReadings,
          pending_tasks \in PendingReadings :
            monitor_system_load(cpu_percent, memory_percent, pending_tasks)
    \/ \E new_size \in ManualSizes : manual_adjust(new_size)
    \/ PoolTick

SpecPool == InitPool /\ [][NextPool]_vars

-----------------------------------------------------------------------------
(* The authentication service as a state machine *)

Init ==
    /\ now = 0
    /\ access_token_expire \in AccessExpireChoices
    /\ users \in [UserIds -> {UserRow(p) : p \in UserProfiles}]
    /\ sessions = << >>
    /\ next_session = 0
    /\ active_tokens = << >>
    /\ issued = {}
    /\ login_logs = << >>
    /\ result = [op |-> "none"]
    /\ events = << >>
    /\ cleanup_task = "sleeping"
    /\ suspended = {}
    /\ pool = NewPool

Next ==
    \/ \E u \in Usernames, p \in LoginPasswords : login(u, p)
    \/ \E u \in Usernames, p \in LoginPasswords : authenticate_user(u, p)
    \/ \E t \in PresentableTokens : validate_token(t, FALSE, NoCsrf)
    \/ \E t \in PresentableTokens, c \in PresentableCsrf : validate_token(t, TRUE, c)
    \/ \E t \in PresentableTokens : refresh_token(t)
    \/ \E t \in PresentableTokens : logout(t)
    \/ \E u \in UserIds : logout_all_sessions(u)
    \/ \E u \in UserIds, old \in LoginPasswords, new \in NewPasswords :
            change_password(u, old, new)
    \/ \E s \in 1..MaxSessions : revoke_session(s)
    \/ \E u \in Usernames, p \in LoginPasswords : api_login(u, p)
    \/ \E t \in IssuedTokens \cup {Malformed}, has_request \in BOOLEAN :
            get_current_user(t, has_request)
    \/ Tick

Spec == Init /\ [][Next]_vars

-----------------------------------------------------------------------------
(* AuditLogger, in units of 30 minutes *)

MaxAuditTime == 2     \* the clock of SpecAudit stops here
MaxEvents == 8        \* length of the audit log in one run

\* AuditLogger.log_login_failed
log_login_failed(ip_address) ==
    /\ Len(events) + 2 <= MaxEvents
    /\ events' = log_event(events, AuditEvent("login_failed", "medium", "failed",
                                              ip_address, 0))
    /\ result' = [op |-> "log_login_failed", ip_address |-> ip_address]
    /\ UNCHANGED <<now, authVars>>

\* AuditLogger.log_login_success
log_login_success(ip_address) ==
    /\ Len(events) + 1 <= MaxEvents
    /\ events' = log_event(events, AuditEvent("login_success", "low", "success",
                                              ip_address, 0))
    /\ result' = [op |-> "log_login_success", ip_address |-> ip_address]
    /\ UNCHANGED <<now, authVars>>

AuditTick ==
    /\ now < MaxAuditTime
    /\ now' = now + 1
    /\ result' = [op |-> "tick"]
    /\ UNCHANGED <<authVars, events>>

InitAudit ==
    /\ now = 0
    /\ access_token_expire = 1
    /\ users = [u \in UserIds |-> UserRow(CHOOSE p \in UserProfiles :
                    p.is_active /\ p.status = "active" /\ p.locked_until = NoTime)]
    /\ sessions = << >>
    /\ next_session = 0
    /\ active_tokens = << >>
    /\ issued = {}
    /\ login_logs = << >>
    /\ result = [op |-> "none"]
    /\ events = << >>
    /\ cleanup_task = "sleeping"
    /\ suspended = {}
    /\ pool = NewPool

NextAudit ==
    \/ \E ip \in IPs : log_login_failed(ip)
    \/ log_login_success("10.0.0.2")
    \/ AuditTick

SpecAudit == InitAudit /\ [][NextAudit]_vars

-----------------------------------------------------------------------------
(* AuditLogger with its retention sweep (SpecRetention), in units of 30      *)
(* minutes                                                                   *)

DayUnits == 48        \* timedelta(days=1)

\* values of the days argument: the default and "nothing older than now"
RetentionDays == {0, 90}

\* a sweep that also drops the events stamped exactly at the cutoff
filtered_events_strict(evs, days) ==
    LET cutoff_time == now - days * DayUnits
        keep(event) == event.timestamp > cutoff_time
    IN SelectSeq(evs, keep)

\* cleanup_old_events: the list built by the loop over self._events
filtered_events(evs, days) ==
    LET cutoff_time == now - days * DayUnits
        keep(event) == event.timestamp >= cutoff_time
    IN SelectSeq(evs, keep)

\* AuditLogger.cleanup_old_events
cleanup_old_events(days) ==
    /\ events' = filtered_events(events, days)
    /\ result' = [op |-> "cleanup_old_events", days |-> days,
                  returned |-> Len(filtered_events(events, days)),
                  removed |-> Len(events) - Len(filtered_events(events, days))]
    /\ UNCHANGED <<now, authVars>>

SaveCap == 10000      \* self._events[-10000:]

\* AuditLogger._save_events: the events the file holds after a write
saved_events(evs) ==
    IF Len(evs) > SaveCap THEN SubSeq(evs, Len(evs) - SaveCap + 1, Len(evs)) ELSE evs

\* a restart: AuditLogger.__init__ and _load_events read back the file that the
\* last log_event or cleanup_old_events wrote
load_events ==
    /\ events' = saved_events(events)
    /\ result' = [op |-> "load_events"]
    /\ UNCHANGED <<now, authVars>>

NextRetention ==
    \/ log_login_failed(ClientIP)
    \/ log_login_success(ClientIP)
    \/ \E days \in RetentionDays : cleanup_old_events(days)
    \/ load_events
    \/ AuditTick

SpecRetention == InitAudit /\ [][NextRetention]_vars

\* the logs the window scan can meet (SpecScan): failed logins of two IPs,
\* retention sweeps and restarts
NextScan ==
    \/ \E ip \in IPs : log_login_failed(ip)
    \/ cleanup_old_events(0)
    \/ load_events
    \/ AuditTick

SpecScan == InitAudit /\ [][NextScan]_vars

-----------------------------------------------------------------------------
(* AuditLogger.get_security_summary on logs of eleven IPs (SpecSummary), in  *)
(* units of 30 minutes                                                       *)

HourUnits == 2        \* timedelta(hours=1)
TopIPs == 10          \* [:10]

\* values of the hours argument: "from now on", one hour and the default
SummaryHours == {0, 1, 24}

\* the loop of get_security_summary: the events it visits, newest first, from
\* position i down to the first event older than the cutoff
RECURSIVE summary_window(_, _, _)
summary_window(evs, i, cutoff_time) ==
    IF i = 0 THEN << >>
    ELSE IF evs[i].timestamp < cutoff_time THEN << >>
    ELSE <<evs[i]>> \o summary_window(evs, i - 1, cutoff_time)

\* the number of visited events of one type
count_type(visited, event_type) ==
    Cardinality({k \in 1..Len(visited) : visited[k].event_type = event_type})

\* summary["event_types"] after the loop
event_types(visited) ==
    [t \in {visited[k].event_type : k \in 1..Len(visited)} |-> count_type(visited, t)]

\* summary["top_ips"] after the loop, before it is sorted and cut
ip_counts(visited) ==
    [ip \in {visited[k].ip_address : k \in 1..Len(visited)} |->
        Cardinality({k \in 1..Len(visited) : visited[k].ip_address = ip})]

\* the position at which the loop inserted the IP into the dict
first_seen(visited, ip) ==
    CHOOSE k \in 1..Len(visited) :
        /\ visited[k].ip_address = ip
        /\ \A j \in 1..(k - 1) : visited[j].ip_address # ip

\* a ranking sorted without reverse=True: the IPs with the fewest events first
top_ips_ascending(visited) ==
    LET counts == ip_counts(visited)
        before(q, ip) == \/ counts[q] < counts[ip]
                         \/ /\ counts[q] = counts[ip]
                            /\ first_seen(visited, q) < first_seen(visited, ip)
        rank(ip) == Cardinality({q \in DOMAIN counts : before(q, ip)})
    IN [ip \in {p \in DOMAIN counts : rank(p) < TopIPs} |-> counts[ip]]

\* dict(sorted(items, key=count, reverse=True)[:10]): the sort is stable, so
\* IPs with equal counts keep the order in which the loop met them
top_ips(visited) ==
    LET counts == ip_counts(visited)
        before(q, ip) == \/ counts[q] > counts[ip]
                         \/ /\ counts[q] = counts[ip]
                            /\ first_seen(visited, q) < first_seen(visited, ip)
        rank(ip) == Cardinality({q \in DOMAIN counts : before(q, ip)})
    IN [ip \in {p \in DOMAIN counts : rank(p) < TopIPs} |-> counts[ip]]

\* AuditLogger.get_security_summary: the dict it returns
security_summary(evs, hours) ==
    LET visited == summary_window(evs, Len(evs), now - hours * HourUnits) IN
    [time_period_hours |-> hours,
     total_events |-> Len(visited),
     login_attempts |-> [success |-> count_type(visited, "login_success"),
                         failed |-> count_type(visited, "login_failed")],
     access_denied |-> count_type(visited, "access_denied"),
     security_violations |-> count_type(visited, "security_violation"),
     suspicious_activities |-> count_type(visited, "suspicious_activity"),
     top_ips |-> top_ips(visited),
     event_types |-> event_types(visited)]

get_security_summary(hours) ==
    /\ result' = [op |-> "get_security_summary", hours |-> hours,
                  summary |-> security_summary(events, hours)]
    /\ UNCHANGED <<now, authVars, events>>

\* eleven client addresses
SummaryIPs ==
    <<"198.51.100.1", "198.51.100.2", "198.51.100.3", "198.51.100.4",
      "198.51.100.5", "198.51.100.6", "198.51.100.7", "198.51.100.8",
      "198.51.100.9", "198.51.100.10", "198.51.100.11">>

SummaryTypes ==
    <<"login_success", "login_failed", "access_denied", "security_violation",
      "suspicious_activity", "logout">>

\* a log written by earlier log_event calls: one event of every address, in
\* turn of every type, then a failed login of each address in twice; the
\* events before position split were logged half an hour before the others
EarlierLog(twice, split) ==
    LET first == [n \in 1..Len(SummaryIPs) |->
                    [event_type |-> SummaryTypes[(n % Len(SummaryTypes)) + 1],
                     severity |-> "low", result |-> "success",
                     ip_address |-> SummaryIPs[n], timestamp |-> 0,
                     failure_count |-> 0]]
        ips == {SummaryIPs[n] : n \in 1..Len(SummaryIPs)}
        keep(event) == event.ip_address \in twice
        second == [n \in 1..Len(SelectSeq(first, keep)) |->
                    [SelectSeq(first, keep)[n] EXCEPT !.event_type = "login_failed",
                                                      !.severity = "medium",
                                                      !.result = "failed"]]
        log == first \o second
    IN [n \in 1..Len(log) |->
            [log[n] EXCEPT !.timestamp = IF n < split THEN 0 ELSE 1]]

InitSummary ==
    /\ now = 1
    /\ access_token_expire = 1
    /\ users = [u \in UserIds |-> UserRow(CHOOSE p \in UserProfiles :
                    p.is_active /\ p.status = "active" /\ p.locked_until = NoTime)]
    /\ sessions = << >>
    /\ next_session = 0
    /\ active_tokens = << >>
    /\ issued = {}
    /\ login_logs = << >>
    /\ result = [op |-> "none"]
    /\ \E twice \in SUBSET {SummaryIPs[n] : n \in 1..Len(SummaryIPs)},
          split \in {1, 5, 14} :
            events = EarlierLog(twice, split)
    /\ cleanup_task = "sleeping"
    /\ suspended = {}
    /\ pool = NewPool

NextSummary ==
    \/ \E hours \in SummaryHours : get_security_summary(hours)
    \/ AuditTick

SpecSummary == InitSummary /\ [][NextSummary]_vars

-----------------------------------------------------------------------------
(* Logins and logouts only (SpecLogout): the clock leaves the last call's    *)
(* record in place, so that two calls of logout can be told to be the first  *)
(* and the second                                                            *)

LogoutTick ==
    /\ now < MaxTime
    /\ now' = now + 1
    /\ UNCHANGED <<authVars, result, events>>

NextLogout ==
    \/ \E u \in Usernames, p \in LoginPasswords : login(u, p)
    \/ \E t \in PresentableTokens : logout(t)
    \/ LogoutTick

SpecLogout == Init /\ [][NextLogout]_vars

-----------------------------------------------------------------------------
(* JWTManager on its own (SpecJwt): one token is issued from a claims map and *)
(* verified while the clock runs                                             *)

MaxJwtTime == 2       \* the clock of SpecJwt stops here

ClaimKeys == {"sub", "role", "type", "aud"}
ClaimValues == {"alice", "refresh"}
\* the dicts a caller may pass as data
ClaimsMaps == UNION {[K -> ClaimValues] : K \in SUBSET ClaimKeys}

\* a call of JWTManager.create_access_token
jwt_create_access_token(data) ==
    /\ result' = [op |-> "create_access_token", data |-> data,
                  token |-> create_access_token(data)]
    /\ UNCHANGED <<now, authVars, events>>

\* a call of JWTManager.verify_token on the token issued last
jwt_verify_token(token_type) ==
    /\ result.op \in {"create_access_token", "verify_token"}
    /\ result' = [op |-> "verify_token", data |-> result.data, token |-> result.token,
                  token_type |-> token_type,
                  payload |-> verify_token_payload(result.token, token_type)]
    /\ UNCHANGED <<now, authVars, events>>

JwtTick ==
    /\ now < MaxJwtTime
    /\ now' = now + 1
    /\ UNCHANGED <<authVars, result, events>>

InitJwt ==
    /\ now = 0
    /\ access_token_expire \in AccessExpireChoices
    /\ users = << >>
    /\ sessions = << >>
    /\ next_session = 0
    /\ active_tokens = << >>
    /\ issued = {}
    /\ login_logs = << >>
    /\ result = [op |-> "none"]
    /\ events = << >>
    /\ cleanup_task = "sleeping"
    /\ suspended = {}
    /\ pool = NewPool

NextJwt ==
    \/ \E data \in ClaimsMaps : jwt_create_access_token(data)
    \/ \E token_type \in {"access", "refresh"} : jwt_verify_token(token_type)
    \/ JwtTick

SpecJwt == InitJwt /\ [][NextJwt]_vars

-----------------------------------------------------------------------------
(* The token registry over its whole retention period (SpecRegistry): logins, *)
(* logouts, the sweep and the hourly task of main.py that calls it, under a   *)
(* clock that runs past 48 hours                                              *)

MaxRegistryTime == 5  \* the clock of SpecRegistry stops here
MaxCycles == 2        \* cycles of the cleanup task that log an event in one run

\* the event both branches of the task log: SYSTEM_START with action "token_cleanup"
TaskEvent(severity, result_) ==
    [event_type |-> "system_start", severity |-> severity, result |-> result_,
     ip_address |-> "127.0.0.1", timestamp |-> now, failure_count |-> 0,
     action |-> "token_cleanup"]

\* cleaned_count > 0: ordering None against an int raises TypeError
greater_than_raises(value) == value = "None"

\* main.py cleanup_expired_tokens: one turn of the loop, from the return of
\* asyncio.sleep to the next sleep.  Nothing in between awaits.
main_cleanup_expired_tokens ==
    LET cleaned_count == cleanup_expired_tokens_returns
        raised == IF greater_than_raises(cleaned_count) THEN "TypeError" ELSE NoException
    IN
    /\ cleanup_task = "sleeping"
    /\ Len(events) < MaxCycles
    /\ active_tokens' = swept(active_tokens)
    /\ events' = IF except_Exception(raised)
                 THEN log_event(events, TaskEvent("medium", "failed"))
                 ELSE IF cleaned_count > 0
                 THEN log_event(events, TaskEvent("low", "success"))
                 ELSE events
    /\ result' = [op |-> "main_cleanup_expired_tokens",
                  removed |-> expired_tokens(active_tokens),
                  sweep_raised |-> NoException, raised |-> raised]
    /\ UNCHANGED <<now, suspended, pool, cleanup_task, access_token_expire, users, sessions, next_session,
                   issued, login_logs>>

\* lifespan shutdown: cleanup_task.cancel().  The task is suspended in
\* asyncio.sleep, where CancelledError is raised and the loop breaks.
cancel_cleanup_task ==
    /\ cleanup_task = "sleeping"
    /\ cleanup_task' = "cancelled"
    /\ result' = [op |-> "cancel_cleanup_task"]
    /\ UNCHANGED <<now, suspended, pool, access_token_expire, users, sessions, next_session,
                   active_tokens, issued, login_logs, events>>

RegistryTick ==
    /\ now < MaxRegistryTime
    /\ now' = now + 1
    /\ result' = [op |-> "tick"]
    /\ UNCHANGED <<authVars, events>>

NextRegistry ==
    \/ \E u \in UserIds, p \in LoginPasswords : login(u, p)
    \/ \E t \in {r.access_token : r \in issued} : logout(t)
    \/ \E u \in UserIds : logout_all_sessions(u)
    \/ cleanup_expired_tokens
    \/ main_cleanup_expired_tokens
    \/ cancel_cleanup_task
    \/ RegistryTick

SpecRegistry == Init /\ [][NextRegistry]_vars

-----------------------------------------------------------------------------
(* The session store with two users (SpecSessions).  The table already holds *)
(* one session of each user, created 12 hours before the run begins.         *)

SessionUsers == {"alice", "bob"}

\* rows of user_sessions written by earlier logins; their session ids are uuids
\* like any other
EarlierSessions ==
    [s \in {11, 12} |->
        [user_id |-> IF s = 11 THEN "alice" ELSE "bob", is_active |-> TRUE,
         expires_at |-> SessionTTL - 1, csrf_token |-> NoCsrf, last_activity |-> 0]]

UnknownSession == 99

InitSessions ==
    /\ now = 0
    /\ access_token_expire \in AccessExpireChoices
    /\ users = [u \in SessionUsers |-> UserRow(CHOOSE p \in UserProfiles :
                    p.is_active /\ p.status = "active" /\ p.locked_until = NoTime)]
    /\ sessions = EarlierSessions
    /\ next_session = 0
    /\ active_tokens = << >>
    /\ issued = {}
    /\ login_logs = << >>
    /\ result = [op |-> "none"]
    /\ events = << >>
    /\ cleanup_task = "sleeping"
    /\ suspended = {}
    /\ pool = NewPool

NextSessions ==
    \/ \E u \in SessionUsers, p \in LoginPasswords : login(u, p)
    \/ \E t \in {r.access_token : r \in issued} : logout(t)
    \/ \E t \in {r.access_token : r \in issued} : validate_token(t, FALSE, NoCsrf)
    \/ \E s \in DOMAIN sessions \cup {UnknownSession} : revoke_session(s)
    \/ Tick

SpecSessions == InitSessions /\ [][NextSessions]_vars

-----------------------------------------------------------------------------
(* Properties of the authentication service (Spec) *)

\* is_active && status == active && now >= locked_until
Eligible(user) ==
    /\ user.is_active
    /\ user.status = "active"
    /\ ~(user.locked_until # NoTime /\ user.locked_until > now)

SessionLive(session_id) ==
    /\ session_id \in DOMAIN sessions
    /\ sessions[session_id].is_active
    /\ sessions[session_id].expires_at > now

\* C1: for an active, unlocked user, login with the correct password succeeds, the
\* csrf_token it returns is the one bound to the session it created, and a later
\* validate_token of the returned access token with require_csrf and that csrf_token
\* returns valid (while token, session and account are still good).
C1_LoginCsrfRoundTrip ==
    /\ (/\ result.op = "login"
        /\ result.username \in DOMAIN users
        /\ Eligible(users[result.username])
        /\ pwd_verify(result.password, users[result.username].password_hash))
       => (/\ result.success
           /\ result.session_id \in DOMAIN sessions
           /\ sessions[result.session_id].csrf_token = result.csrf_token)
    /\ (/\ result.op = "validate_token"
        /\ result.require_csrf
        /\ \E r \in issued : /\ r.by = "login"
                             /\ r.access_token = result.token
                             /\ r.csrf_token = result.csrf_token
        /\ verify_token(result.token, "access")
        /\ SessionLive(result.token.session_id)
        /\ Eligible(users[result.token.sub]))
       => result.valid

\* C2: logout with an access token that validate_token accepts returns true, leaves
\* the token's session inactive and the token blacklisted, and validate_token of the
\* token is then refused.
C2_LogoutRevokes ==
    (result.op = "logout" /\ result.accepted)
       => (/\ result.success
           /\ ~SessionLive(result.token.session_id)
           /\ result.token \in DOMAIN active_tokens
           /\ active_tokens[result.token].blacklisted
           /\ ~validate_token_result(result.token, FALSE, NoCsrf).valid)

\* C3: after logout_all_sessions(user_id) every session of the user is inactive and
\* validate_token refuses every access token issued to the user before the call.
C3_LogoutAllRevokes ==
    result.op = "logout_all_sessions"
       => (/\ \A sid \in DOMAIN sessions :
                sessions[sid].user_id = result.user_id => ~sessions[sid].is_active
           /\ \A r \in issued :
                r.user_id = result.user_id
                   => ~validate_token_result(r.access_token, FALSE, NoCsrf).valid)

\* C5: refresh_token with a refresh token whose session is revoked, expired or gone
\* fails, returns no tokens and adds nothing to the revocation registry.
C5_RefreshNeedsLiveSession ==
    [][(result'.op = "refresh_token" /\ ~SessionLive(result'.token.session_id))
          => (/\ ~result'.success
              /\ active_tokens' = active_tokens
              /\ issued' = issued)]_vars

\* a verified refresh token whose session row is still stored, but revoked or expired,
\* was presented and refused
C5_Witness ==
    /\ result.op = "refresh_token"
    /\ verify_token(result.token, "refresh")
    /\ result.token.session_id \in DOMAIN sessions
    /\ ~SessionLive(result.token.session_id)
    /\ ~result.success

\* C6: once a session's expires_at has passed, get_session returns nothing for it and
\* validate_token of any access token bound to it is refused, also while the row is
\* still stored with is_active = true.
C6_ExpiredSessionAbsent ==
    /\ \A sid \in DOMAIN sessions :
          sessions[sid].expires_at <= now => get_session(sid) = {}
    /\ \A r \in issued, c \in PresentableCsrf :
          (r.session_id \in DOMAIN sessions /\ sessions[r.session_id].expires_at <= now)
             => (/\ ~validate_token_result(r.access_token, FALSE, NoCsrf).valid
                 /\ ~validate_token_result(r.access_token, TRUE, c).valid)
    /\ (/\ result.op = "validate_token"
        /\ result.token.session_id \in DOMAIN sessions
        /\ sessions[result.token.session_id].expires_at <= now)
       => ~result.valid

\* an unexpired, unrevoked access token of a user who may log in was refused because
\* its session, still stored and still is_active, has expired
C6_Witness ==
    /\ result.op = "validate_token"
    /\ verify_token(result.token, "access")
    /\ result.token \in DOMAIN active_tokens
    /\ ~active_tokens[result.token].blacklisted
    /\ Eligible(users[result.token.sub])
    /\ result.token.session_id \in DOMAIN sessions
    /\ sessions[result.token.session_id].is_active
    /\ sessions[result.token.session_id].expires_at <= now
    /\ ~result.valid
    /\ result.error_message = "Session is invalid or expired"

\* C7: login never succeeds for a user who is not is_active, whose status is not
\* 'active' or whose locked_until is still in the future.
C7_LoginRespectsAccountState ==
    (result.op = "login" /\ result.success) => Eligible(users[result.username])

\* C10: change_password with the correct old password and a new password that fails
\* the strength policy returns (false, the violated rules) and leaves the password
\* hash, the salt and every session unchanged.
C10_WeakPasswordRejected ==
    [][(/\ result'.op = "change_password"
        /\ pwd_verify(result'.old_password, users[result'.user_id].password_hash)
        /\ validate_password_strength(result'.new_password) # << >>)
          => (/\ ~result'.success
              /\ result'.message = validate_password_strength(result'.new_password)
              /\ users' = users
              /\ sessions' = sessions)]_vars

\* C11: change_password with the correct old password and a new password that meets
\* the policy returns (true, ...), and afterwards every session of the user is
\* inactive, so that no access token issued to the user before is valid any more.
C11_ChangePasswordRevokesSessions ==
    [][(/\ result'.op = "change_password"
        /\ pwd_verify(result'.old_password, users[result'.user_id].password_hash)
        /\ validate_password_strength(result'.new_password) = << >>)
          => (/\ result'.success
              /\ \A sid \in DOMAIN sessions' :
                    sessions'[sid].user_id = result'.user_id => ~sessions'[sid].is_active)]_vars

\* C12: validate_token returns valid only if the token verifies as an access token
\* (signature, expiry, issuer, audience, type), is not blacklisted, its session exists,
\* is active and unexpired, and, when require_csrf is set, the supplied csrf_token is
\* non-empty and equal to the one bound to the session.
C12_ValidOnlyIfAllChecksPass ==
    (result.op = "validate_token" /\ result.valid)
       => (/\ result.token.sig = "good"
           /\ result.token.exp > now
           /\ result.token.iss = "URAK-AUTH-SERVICE"
           /\ result.token.aud = "URAK-USERS"
           /\ result.token.type = "access"
           /\ ~(result.token \in DOMAIN active_tokens
                 /\ active_tokens[result.token].blacklisted)
           /\ SessionLive(result.token.session_id)
           /\ result.require_csrf
                 => (/\ result.csrf_token # NoCsrf
                     /\ result.csrf_token
                            = sessions[result.token.session_id].csrf_token))

\* an access token was found valid some time after it was issued, its session live
C12_Witness ==
    /\ result.op = "validate_token"
    /\ result.valid
    /\ result.token.iat < now
    /\ SessionLive(result.token.session_id)
    /\ sessions[result.token.session_id].last_activity = now

ServiceOps ==
    {"login", "validate_token", "refresh_token", "logout", "logout_all_sessions",
     "change_password"}

\* C13: login, validate_token, refresh_token, logout, logout_all_sessions and
\* change_password always hand the caller a success/failure value; no exception
\* raised inside them reaches the caller.
C13_NoExceptionEscapes ==
    result.op \in ServiceOps
       => (/\ ~result.escaped
           /\ IF result.op = "validate_token"
              THEN result.valid \in BOOLEAN
              ELSE result.success \in BOOLEAN)

\* the repository raised inside login and the caller got a failure value
C13_Witness ==
    /\ result.op = "login"
    /\ result.raised = "IntegrityError"
    /\ ~result.escaped
    /\ ~result.success

\* C14: every failed login returns the same generic error_message, whatever the cause
\* of the failure.
C14_GenericFailureMessage ==
    (result.op = "login" /\ ~result.success)
       => result.error_message = "Authentication failed"

\* token verifies as a token of type token_type
Genuine(token, token_type) ==
    /\ token.type = token_type
    /\ token.sig = "good"
    /\ token.exp > now
    /\ token.iss = "URAK-AUTH-SERVICE"
    /\ token.aud = "URAK-USERS"

\* C16: a token gets past verification only as a token of its own type: validate_token
\* and logout accept nothing but a well-signed, unexpired access token of the right
\* issuer and audience, and refresh_token takes nothing but such a refresh token
\* beyond its verification step.
C16_WrongTypeRejected ==
    /\ (result.op = "validate_token" /\ result.valid) => Genuine(result.token, "access")
    /\ (result.op = "logout" /\ result.accepted) => Genuine(result.token, "access")
    /\ (result.op = "refresh_token"
           /\ result.error_message # "Invalid or expired refresh token")
          => Genuine(result.token, "refresh")

\* a well-signed, unexpired access token was presented to refresh_token and turned away
C16_Witness ==
    /\ result.op = "refresh_token"
    /\ Genuine(result.token, "access")
    /\ ~result.success
    /\ result.error_message = "Invalid or expired refresh token"

\* C17: a second logout with the same token raises nothing, returns false and changes
\* no session record and no entry of the revocation registry.
C17_SecondLogoutChangesNothing ==
    [][(/\ result.op = "logout"
        /\ result'.op = "logout"
        /\ result'.token = result.token
        /\ now' = now)
          => (/\ ~result'.success
              /\ ~result'.escaped
              /\ sessions' = sessions
              /\ active_tokens' = active_tokens)]_vars

\* C18: a validation that ends invalid carries an error_message, and when the caller
\* passed its request, one access_denied event is appended to the audit log.
C18_DeniedAccessIsAudited ==
    [][/\ (result'.op = "validate_token" /\ ~result'.valid)
            => result'.error_message # NoError
       /\ (/\ result'.op = "get_current_user"
           /\ result'.has_request
           /\ ~validate_token_result(result'.token, FALSE, NoCsrf).valid)
            => (/\ Len(events') = Len(events) + 1
                /\ events'[Len(events')].event_type = "access_denied")]_vars

\* C19: every login attempt appends one audit event that matches its outcome:
\* login_success when it was authenticated, login_failed when it was rejected.
C19_LoginIsAudited ==
    [][result'.op = "api_login"
          => (/\ Len(events') > Len(events)
              /\ events'[Len(events) + 1].event_type
                    = (IF authenticate_user_result(result'.username, result'.password)
                            = "user"
                       THEN "login_success" ELSE "login_failed")
              /\ \A i \in (Len(events) + 2)..Len(events') :
                    events'[i].event_type \notin {"login_success", "login_failed"})]_vars

\* C20: a call of authenticate_user, successful or not, leaves every user record and
\* every stored table as it was.
C20_AuthenticateUserMutatesNothing ==
    [][result'.op = "authenticate_user"
          => (/\ users' = users
              /\ login_logs' = login_logs
              /\ sessions' = sessions)]_vars

\* C25: the csrf_token of a session never changes once the session exists, and
\* so the CSRF token login returned passes the CSRF check of validate_token on
\* every request made while token, session and account are good.
C25_CsrfTokenStableAndAccepted ==
    [][/\ \A s \in DOMAIN sessions \cap DOMAIN sessions' :
            sessions'[s].csrf_token = sessions[s].csrf_token
       /\ (/\ result'.op = "validate_token"
           /\ result'.require_csrf
           /\ \E r \in issued : /\ r.access_token = result'.token
                                /\ r.csrf_token = result'.csrf_token
           /\ verify_token(result'.token, "access")
           /\ SessionLive(result'.token.session_id)
           /\ Eligible(users[result'.token.sub]))
          => result'.valid]_vars

\* C37: a validate_token call that returns valid = false leaves every session
\* record as it was; last_activity is written only by calls that return valid.
C37_RejectedValidationTouchesNothing ==
    [][(result'.op = "validate_token" /\ ~result'.valid) => sessions' = sessions]_vars

-----------------------------------------------------------------------------
(* Properties of the audit logger (SpecAudit) *)

\* the login_failed events of events[i]'s IP inside the window that ends at events[i]
FailuresInWindow(i) ==
    Cardinality({j \in 1..i :
        /\ events[j].event_type = "login_failed"
        /\ events[j].ip_address = events[i].ip_address
        /\ events[j].timestamp >= events[i].timestamp - 1})

IsAlert(i) == i <= Len(events) /\ events[i].event_type = "suspicious_activity"

\* C8: in a run of login_failed events from one IP inside the 30-minute window, the
\* first 4 are followed by no suspicious_activity event and the 5th by exactly one,
\* at severity high.
C8_FifthFailureRaisesOneAlert ==
    \A i \in 1..Len(events) :
        events[i].event_type = "login_failed" =>
            /\ FailuresInWindow(i) < 5 => ~IsAlert(i + 1)
            /\ FailuresInWindow(i) = 5 =>
                  /\ IsAlert(i + 1)
                  /\ events[i + 1].severity = "high"
                  /\ events[i + 1].ip_address = events[i].ip_address
                  /\ ~IsAlert(i + 2)

\* a 4th failure with no alert after it, and a 5th with its alert
C8_Witness ==
    \E i \in 1..Len(events), k \in 1..Len(events) :
        /\ events[i].event_type = "login_failed"
        /\ FailuresInWindow(i) = 4
        /\ i < Len(events)
        /\ ~IsAlert(i + 1)
        /\ events[k].event_type = "login_failed"
        /\ events[k].ip_address = events[i].ip_address
        /\ FailuresInWindow(k) = 5
        /\ IsAlert(k + 1)

\* C9 as claimed: the suspicious_activity event logged by the 6th failed login from
\* one IP inside the window carries failure_count = 5.
C9_SixthAlertCountsFive ==
    \A i \in 1..Len(events) :
        (events[i].event_type = "login_failed" /\ FailuresInWindow(i) = 6)
           => (IsAlert(i + 1) /\ events[i + 1].failure_count = 5)

\* C9 as amended: the suspicious_activity event logged by the 6th failed login from
\* one IP inside the window carries failure_count = 6, the 6th attempt included.
C9_SixthAlertCountsSix ==
    \A i \in 1..Len(events) :
        (events[i].event_type = "login_failed" /\ FailuresInWindow(i) = 6)
           => (IsAlert(i + 1) /\ events[i + 1].failure_count = 6)

\* six failures of one IP inside the window, the sixth followed by its alert
C9_Witness ==
    \E i \in 1..Len(events) :
        /\ events[i].event_type = "login_failed"
        /\ FailuresInWindow(i) = 6
        /\ IsAlert(i + 1)
        /\ events[i + 1].failure_count = 6

\* C31: a log_event call appends its own event exactly once, after everything
\* logged before; a derived suspicious_activity event comes right after the
\* login_failed event that triggered it, one call appends at most one derived
\* event, and a derived event triggers nothing.
C31_EachCallAppendsOnceInOrder ==
    [][/\ result'.op = "log_login_failed" =>
            LET own == AuditEvent("login_failed", "medium", "failed",
                                  result'.ip_address, 0)
                n == Len(events)
            IN /\ Len(events') \in {n + 1, n + 2}
               /\ SubSeq(events', 1, n) = events
               /\ events'[n + 1] = own
               /\ Len(events') = n + 2 =>
                    /\ events'[n + 2].event_type = "suspicious_activity"
                    /\ events'[n + 2].ip_address = own.ip_address
       /\ result'.op = "log_login_success" =>
            events' = Append(events, AuditEvent("login_success", "low", "success",
                                                result'.ip_address, 0))]_vars

\* the last call logged a failed login and its derived event, after five others
C31_Witness ==
    /\ result.op = "log_login_failed"
    /\ Len(events) >= 7
    /\ events[Len(events)].event_type = "suspicious_activity"
    /\ events[Len(events) - 1].event_type = "login_failed"
    /\ events[Len(events) - 1].ip_address = result.ip_address

\* C33: a suspicious_activity event for an IP stands right after a login_failed
\* event of that IP logged at the same time, and at least 5 login_failed events
\* of that IP lie in the 30 minutes before it; failures of other IPs, other
\* event types and older failures do not count.
C33_AlertOnlyForOwnFailures ==
    \A i \in 1..Len(events) :
        IsAlert(i) =>
            /\ i > 1
            /\ events[i - 1].event_type = "login_failed"
            /\ events[i - 1].ip_address = events[i].ip_address
            /\ events[i - 1].timestamp = events[i].timestamp
            /\ Cardinality({j \in 1..(i - 1) :
                    /\ events[j].event_type = "login_failed"
                    /\ events[j].ip_address = events[i].ip_address
                    /\ events[j].timestamp >= events[i].timestamp - FailedLoginWindow})
                 >= failed_login_threshold

\* more than five failed logins lie inside the window, four of one IP and the
\* rest of another, with a successful login among them, and no alert was raised;
\* the log ends with an older failure's IP reaching its own fifth
C33_Witness ==
    \E i \in 1..Len(events) :
        /\ IsAlert(i)
        /\ \E j \in 1..(i - 1) :
                /\ events[j].event_type = "login_failed"
                /\ events[j].ip_address # events[i].ip_address
                /\ events[j].timestamp >= events[i].timestamp - FailedLoginWindow
        /\ \A k \in 1..(i - 1) : ~IsAlert(k)

-----------------------------------------------------------------------------
(* Properties of the token manager (SpecJwt) *)

-----------------------------------------------------------------------------
(* Properties of the token registry (SpecRegistry) *)

\* C21: every access token handed out by a successful login or refresh_token
\* is in the registry under the user id and session id it was issued for, and
\* stays there until it is more than 48 hours old; it is not blacklisted when it
\* is handed out.
C21_IssuedTokensAreTracked ==
    /\ \A r \in issued :
            \/ now - r.access_token.iat > TokenMaxAge
            \/ /\ r.access_token \in DOMAIN active_tokens
               /\ active_tokens[r.access_token].user_id = r.user_id
               /\ active_tokens[r.access_token].session_id = r.session_id
    /\ (result.op \in {"login", "refresh_token"} /\ result.success)
            => /\ result.access_token \in DOMAIN active_tokens
               /\ ~active_tokens[result.access_token].blacklisted

\* a second login has succeeded and both access tokens are in the registry
C21_Witness ==
    /\ result.op = "login" /\ result.success
    /\ Cardinality(issued) = 2
    /\ \A r \in issued : r.access_token \in DOMAIN active_tokens

Sweeps == {"cleanup_expired_tokens", "main_cleanup_expired_tokens"}

\* C26: in the registry an entry's user id, session id and creation time never
\* change and its blacklist flag only goes from not blacklisted to blacklisted;
\* an entry leaves the registry only in a sweep, and only when it is more than
\* 48 hours old.
C26_RegistryEntriesOnlyGetBlacklisted ==
    [][\A t \in DOMAIN active_tokens :
          IF t \in DOMAIN active_tokens'
          THEN /\ active_tokens'[t].user_id = active_tokens[t].user_id
               /\ active_tokens'[t].session_id = active_tokens[t].session_id
               /\ active_tokens'[t].created_at = active_tokens[t].created_at
               /\ active_tokens[t].blacklisted => active_tokens'[t].blacklisted
          ELSE /\ result'.op \in Sweeps
               /\ now - active_tokens[t].created_at > TokenMaxAge]_vars

\* the hourly task has swept an entry out while a younger one stayed
C26_Witness ==
    /\ result.op = "main_cleanup_expired_tokens"
    /\ result.removed # {}
    /\ DOMAIN active_tokens # {}

\* C27: cleanup_expired_tokens removes exactly the entries created more than 48
\* hours ago and leaves every younger entry as it was.
C27_SweepRemovesExactlyTheOld ==
    [][result'.op = "cleanup_expired_tokens" =>
          /\ DOMAIN active_tokens' =
                {t \in DOMAIN active_tokens : now - active_tokens[t].created_at <= TokenMaxAge}
          /\ \A t \in DOMAIN active_tokens' : active_tokens'[t] = active_tokens[t]]_vars

\* a sweep has removed an entry and kept one that is exactly 48 hours old
C27_Witness ==
    /\ result.op = "cleanup_expired_tokens"
    /\ result.removed # {}
    /\ \E t \in DOMAIN active_tokens : now - active_tokens[t].created_at = TokenMaxAge

\* C29: a cycle of the hourly task sweeps the registry once; it logs a
\* "token_cleanup" event with result "failed" only if its sweep raised; after
\* cancellation no cycle runs, and cancelling leaves the registry as it is.
C29_FailedEventOnlyWhenSweepRaised ==
    [][/\ result'.op = "main_cleanup_expired_tokens" =>
            /\ cleanup_task = "sleeping"
            /\ active_tokens' = swept(active_tokens)
            /\ result'.sweep_raised = NoException =>
                    \A i \in (Len(events) + 1)..Len(events') :
                        ~(events'[i].action = "token_cleanup" /\ events'[i].result = "failed")
       /\ result'.op = "cancel_cleanup_task" =>
            /\ cleanup_task' = "cancelled"
            /\ active_tokens' = active_tokens]_vars

-----------------------------------------------------------------------------
(* Properties of the session store (SpecSessions) *)

\* C22: a user may hold several sessions; a logout of one session's access token
\* leaves every other session, of that user and of others, as it was, leaves the
\* other registry entries as they were, and every other access token is valid
\* after the call exactly if it was valid before.
C22_LogoutLeavesOtherSessions ==
    [][result'.op = "logout" =>
          LET token == result'.token IN
          /\ \A s \in DOMAIN sessions \ {token.session_id} :
                s \in DOMAIN sessions' /\ sessions'[s] = sessions[s]
          /\ \A t \in DOMAIN active_tokens \ {token} :
                t \in DOMAIN active_tokens' /\ active_tokens'[t] = active_tokens[t]
          /\ \A r \in issued :
                r.session_id # token.session_id =>
                    (validate_token_result(r.access_token, FALSE, NoCsrf).valid
                     <=> validate_token_result(r.access_token, FALSE, NoCsrf).valid')]_vars

\* a logout was accepted for one of two live sessions of the same user; the other
\* session's token is still valid, and another user has a session too
C22_Witness ==
    /\ result.op = "logout" /\ result.accepted
    /\ \E r \in issued :
            /\ r.session_id # result.token.session_id
            /\ r.user_id = result.token.sub
            /\ SessionLive(r.session_id)
            /\ ~active_tokens[r.access_token].blacklisted
            /\ validate_token_result(r.access_token, FALSE, NoCsrf).valid
    /\ \E s \in DOMAIN sessions : sessions[s].user_id # result.token.sub

\* C23: revoke_session of a known session id returns true and sets is_active to
\* false on that row alone; the row is not deleted and no other row changes.
\* For an unknown id it returns false and changes nothing.  A row leaves the
\* table only when a later login of its user finds it expired.
C23_RevokeDeactivatesOneSession ==
    [][/\ result'.op = "revoke_session" =>
            LET sid == result'.session_id IN
            /\ DOMAIN sessions' = DOMAIN sessions
            /\ \A s \in DOMAIN sessions \ {sid} : sessions'[s] = sessions[s]
            /\ sid \in DOMAIN sessions =>
                    /\ result'.success
                    /\ sessions'[sid] = [sessions[sid] EXCEPT !.is_active = FALSE]
            /\ sid \notin DOMAIN sessions => ~result'.success /\ sessions' = sessions
            /\ UNCHANGED <<users, active_tokens, issued, login_logs>>
       /\ \A s \in DOMAIN sessions \ DOMAIN sessions' :
            /\ result'.op = "login"
            /\ sessions[s].user_id = result'.username
            /\ sessions[s].expires_at <= now]_vars

\* a session was revoked while the same user holds another one that is active
C23_Witness ==
    /\ result.op = "revoke_session" /\ result.success
    /\ ~sessions[result.session_id].is_active
    /\ sessions[result.session_id].expires_at > now
    /\ \E s \in DOMAIN sessions :
            /\ s # result.session_id
            /\ sessions[s].user_id = sessions[result.session_id].user_id
            /\ sessions[s].is_active

\* C24: a successful login (create_session) deletes the sessions of that user
\* whose expires_at has passed and adds one new active session that expires 24
\* hours later; unexpired sessions of the user and all sessions of other users
\* stay as they were.
C24_CreateSessionSweepsOwnExpired ==
    [][(result'.op = "login" /\ result'.success) =>
          LET u == result'.username
              sid == result'.session_id
          IN
          /\ sid \notin DOMAIN sessions
          /\ DOMAIN sessions' =
                {s \in DOMAIN sessions :
                    ~(sessions[s].user_id = u /\ sessions[s].expires_at <= now)} \cup {sid}
          /\ sessions'[sid].user_id = u
          /\ sessions'[sid].is_active
          /\ sessions'[sid].expires_at = now + SessionTTL
          /\ \A s \in DOMAIN sessions' \ {sid} : sessions'[s] = sessions[s]]_vars

\* the login removed the user's expired session, kept their unexpired one and
\* kept the expired session of the other user
C24_Witness ==
    /\ result.op = "login" /\ result.success
    /\ \E s \in DOMAIN EarlierSessions \ DOMAIN sessions :
            EarlierSessions[s].user_id = result.username
    /\ \E s \in DOMAIN sessions \ {result.session_id} :
            sessions[s].user_id = result.username /\ sessions[s].expires_at > now
    /\ \E s \in DOMAIN sessions :
            sessions[s].user_id # result.username /\ sessions[s].expires_at <= now

-----------------------------------------------------------------------------
(* Properties of the audit log's retention (SpecRetention) *)

Logging == {"log_login_failed", "log_login_success"}

\* C30: the in-memory audit log is append-only.  A logging call leaves the log
\* it found as a proper prefix of its log; cleanup_old_events keeps exactly the
\* events stamped at or after now - days, in their order; nothing else changes
\* the log.
C30_AuditLogAppendOnly ==
    [][/\ result'.op \in Logging =>
            /\ Len(events') > Len(events)
            /\ SubSeq(events', 1, Len(events)) = events
       /\ result'.op = "cleanup_old_events" =>
            /\ \A i \in 1..Len(events) :
                    events[i].timestamp < now - result'.days * DayUnits
                        => events[i] \notin {events'[j] : j \in 1..Len(events')}
            /\ LET kept == {i \in 1..Len(events) :
                                events[i].timestamp >= now - result'.days * DayUnits}
               IN /\ Len(events') = Cardinality(kept)
                  /\ \A j \in 1..Len(events') :
                        events'[j] =
                            events[CHOOSE i \in kept :
                                      Cardinality({k \in kept : k <= i}) = j]
       /\ result'.op \notin Logging \cup {"cleanup_old_events"} => events' = events]_vars

\* a sweep has removed old events and kept newer ones
C30_Witness ==
    /\ result.op = "cleanup_old_events"
    /\ result.removed > 0
    /\ Len(events) > 1

Reverse(s) == [i \in 1..Len(s) |-> s[Len(s) + 1 - i]]

EventTypes == {"login_failed", "login_success", "suspicious_activity"}

\* C32: for every log the logger can hold, _get_recent_events_by_ip(ip, type,
\* minutes) returns exactly the events of the whole log with that IP, that type
\* and a timestamp at or after now - minutes, newest first: the early stop of
\* the backward scan misses none.
C32_ScanEqualsWindowFilter ==
    \A ip \in IPs, type \in EventTypes, minutes \in 0..MaxAuditTime :
        LET in_window(event) == /\ event.ip_address = ip
                                /\ event.event_type = type
                                /\ event.timestamp >= now - minutes
        IN get_recent_events_by_ip(events, ip, type, minutes)
                = Reverse(SelectSeq(events, in_window))

\* the log holds a failure older than the window in front of failures inside
\* it, with events of another IP in between, and the scan over 30 minutes
\* returns the inner ones
C32_Witness ==
    \E i, j, k \in 1..Len(events) :
        /\ i < j /\ j < k
        /\ events[i].event_type = "login_failed"
        /\ events[i].timestamp < now - FailedLoginWindow
        /\ events[j].ip_address # events[i].ip_address
        /\ events[k].event_type = "login_failed"
        /\ events[k].ip_address = events[i].ip_address
        /\ events[k].timestamp >= now - FailedLoginWindow
        /\ Len(get_recent_events_by_ip(events, events[i].ip_address, "login_failed",
                                       FailedLoginWindow)) >= 1

-----------------------------------------------------------------------------
(* Properties of the security summary (SpecSummary) *)

RECURSIVE SumOf(_)
SumOf(f) ==
    IF DOMAIN f = {} THEN 0
    ELSE LET x == CHOOSE y \in DOMAIN f : TRUE
         IN f[x] + SumOf([y \in DOMAIN f \ {x} |-> f[y]])

\* the positions of the log inside the window of the summary
InWindow(hours) ==
    {i \in 1..Len(events) : events[i].timestamp >= now - hours * HourUnits}

CountInWindow(hours, event_type) ==
    Cardinality({i \in InWindow(hours) : events[i].event_type = event_type})

IPCountInWindow(hours, ip) ==
    Cardinality({i \in InWindow(hours) : events[i].ip_address = ip})

\* C34: get_security_summary(hours) counts exactly the events of the log stamped
\* inside the trailing window: total_events is their number and equals the sum
\* of the per-type counts and of the per-IP counts, the five counters are the
\* numbers of in-window events of their types, and top_ips holds at most 10
\* IPs with their counts, none with fewer events than an IP left out.
C34_SummaryCountsTheWindow ==
    result.op = "get_security_summary" =>
        LET summary == result.summary
            hours == result.hours
            ips == {events[i].ip_address : i \in InWindow(hours)}
        IN /\ summary.total_events = Cardinality(InWindow(hours))
           /\ summary.total_events = SumOf(summary.event_types)
           /\ summary.total_events = SumOf([ip \in ips |-> IPCountInWindow(hours, ip)])
           /\ \A t \in DOMAIN summary.event_types :
                summary.event_types[t] = CountInWindow(hours, t)
           /\ summary.login_attempts.success = CountInWindow(hours, "login_success")
           /\ summary.login_attempts.failed = CountInWindow(hours, "login_failed")
           /\ summary.access_denied = CountInWindow(hours, "access_denied")
           /\ summary.security_violations = CountInWindow(hours, "security_violation")
           /\ summary.suspicious_activities = CountInWindow(hours, "suspicious_activity")
           /\ DOMAIN summary.top_ips \subseteq ips
           /\ Cardinality(DOMAIN summary.top_ips) <= TopIPs
           /\ Cardinality(ips) >= TopIPs => Cardinality(DOMAIN summary.top_ips) = TopIPs
           /\ \A p \in DOMAIN summary.top_ips :
                /\ summary.top_ips[p] = IPCountInWindow(hours, p)
                /\ \A q \in ips \ DOMAIN summary.top_ips :
                        summary.top_ips[p] >= IPCountInWindow(hours, q)

\* a summary over a window that leaves part of the log out and holds eleven
\* IPs with different counts: one IP did not make the top ten
C34_Witness ==
    /\ result.op = "get_security_summary"
    /\ Cardinality(InWindow(result.hours)) < Len(events)
    /\ Cardinality(DOMAIN result.summary.top_ips) = TopIPs
    /\ \E q \in {events[i].ip_address : i \in InWindow(result.hours)} :
            q \notin DOMAIN result.summary.top_ips
    /\ \E p, q \in DOMAIN result.summary.top_ips :
            result.summary.top_ips[p] > result.summary.top_ips[q]

-----------------------------------------------------------------------------
(* Properties of SpecPool *)

\* C38: after any sequence of automatic scale-ups, scale-downs and
\* manual_adjust calls the pool size lies between THREAD_POOL_MIN_WORKERS and
\* THREAD_POOL_MAX_WORKERS, and any two size changes are at least the
\* 10-second cooldown apart.
C38_PoolSizeBoundedAndCooledDown ==
    /\ THREAD_POOL_MIN_WORKERS <= pool.current_workers
    /\ pool.current_workers <= THREAD_POOL_MAX_WORKERS
    /\ \A i, j \in DOMAIN pool.adjustments :
            i < j => pool.adjustments[j].at - pool.adjustments[i].at
                        >= adjustment_cooldown

C38_Witness ==
    /\ \A reason \in {"manual", "scale_up", "scale_down"} :
            \E i \in DOMAIN pool.adjustments : pool.adjustments[i].reason = reason
    /\ \E i \in DOMAIN pool.adjustments :
            /\ i + 1 \in DOMAIN pool.adjustments
            /\ pool.adjustments[i + 1].at - pool.adjustments[i].at = adjustment_cooldown
    /\ \E i \in DOMAIN pool.adjustments :
            pool.adjustments[i].new_size = THREAD_POOL_MAX_WORKERS

\* C39: manual_adjust(new_size) returns true only if the pool size equals
\* new_size when it returns; for a new_size outside [min, max] it returns
\* false and leaves the pool unchanged.
C39_ManualAdjustTrueMeansResized ==
    [][result'.op = "manual_adjust" =>
          /\ result'.returned => pool'.current_workers = result'.new_size
          /\ (result'.new_size < THREAD_POOL_MIN_WORKERS
                \/ result'.new_size > THREAD_POOL_MAX_WORKERS)
                => (~result'.returned /\ pool' = pool)]_vars

-----------------------------------------------------------------------------
(* SpecInterleave: coroutines of the service that give way at an await.     *)
(* validate_token is cut at `await update_session` (auth.py:196) and login  *)
(* at `await update_user` (auth.py:112); what a coroutine holds in its      *)
(* locals while it waits is a frame in `suspended`.  Time unit: 12 hours.   *)

MaxSuspended == 2     \* coroutines waiting at the same time

\* an update_session that writes every column of the object it is given
update_session_whole_row(session_id, session_obj) ==
    IF session_id \in DOMAIN sessions
    THEN [sessions EXCEPT ![session_id] = session_obj]
    ELSE sessions

\* UserRepository.update_session on the object validate_token read earlier: the
\* UPDATE writes the attribute that was set on it; a row deleted meanwhile
\* makes the commit fail, which update_session swallows
update_session_detached(session_id, session_obj) ==
    IF session_id \in DOMAIN sessions
    THEN [sessions EXCEPT ![session_id].last_activity = session_obj.last_activity]
    ELSE sessions

\* validate_token up to `await self.user_repo.update_session(session)`; a call
\* that returns before it has a session to touch runs to its end
validate_token_read(token, require_csrf, csrf_token) ==
    LET r == validate_token_result(token, require_csrf, csrf_token) IN
    IF r.touched = NoSession
    THEN validate_token(token, require_csrf, csrf_token)
    ELSE /\ Cardinality(suspended) < MaxSuspended
         /\ suspended' = suspended \cup
                {[op |-> "validate_token", token |-> token,
                  require_csrf |-> require_csrf, csrf_token |-> csrf_token,
                  session_obj |-> [sessions[r.touched] EXCEPT !.last_activity = now],
                  valid |-> r.valid, error_message |-> r.error_message]}
         /\ result' = [op |-> "validate_token_read", token |-> token]
         /\ UNCHANGED <<now, pool, cleanup_task, access_token_expire, users, sessions,
                        next_session, active_tokens, issued, login_logs, events>>

\* validate_token from the UPDATE of update_session to its return
validate_token_write(f) ==
    /\ f \in suspended
    /\ f.op = "validate_token"
    /\ suspended' = suspended \ {f}
    /\ sessions' = update_session_detached(f.token.session_id, f.session_obj)
    /\ result' = [op |-> "validate_token", token |-> f.token,
                  require_csrf |-> f.require_csrf, csrf_token |-> f.csrf_token,
                  valid |-> f.valid, error_message |-> f.error_message,
                  raised |-> NoException, escaped |-> escapes(NoException),
                  session_obj |-> f.session_obj]
    /\ UNCHANGED <<now, pool, cleanup_task, access_token_expire, users, next_session,
                   active_tokens, issued, login_logs, events>>

\* login up to `await self.user_repo.update_user(user)`: the user is
\* authenticated, the session row is committed and the tokens are minted; a
\* login that fails runs to its end
login_begin(username, password) ==
    LET sid == next_session + 1
        csrf_token == sid
        access_token == create_access_token([sub |-> username, session_id |-> sid])
        refresh == create_refresh_token([sub |-> username, session_id |-> sid])
    IN
    IF authenticate_user_result(username, password) # "user"
    THEN login(username, password)
    ELSE /\ next_session < MaxSessions
         /\ Cardinality(suspended) < MaxSuspended
         /\ Len(authenticate_user_logs(username, password)) <= MaxLoginLogs
         /\ login_logs' = authenticate_user_logs(username, password)
         /\ users' = authenticate_user_users(username, password)
         /\ sessions' =
                [s \in cleanup_expired_sessions(username) \cup {sid} |->
                    IF s = sid
                    THEN [user_id |-> username, is_active |-> TRUE,
                          expires_at |-> now + SessionTTL,
                          csrf_token |-> login_stored_csrf(csrf_token),
                          last_activity |-> now]
                    ELSE sessions[s]]
         /\ next_session' = sid
         /\ suspended' = suspended \cup
                {[op |-> "login", username |-> username, password |-> password,
                  session_id |-> sid, csrf_token |-> csrf_token,
                  access_token |-> access_token, refresh_token |-> refresh]}
         /\ result' = [op |-> "login_begin", username |-> username,
                       session_id |-> sid]
         /\ UNCHANGED <<now, pool, cleanup_task, access_token_expire, active_tokens,
                        issued, events>>

\* login from the registry write to its return
login_finish(f) ==
    /\ f \in suspended
    /\ f.op = "login"
    /\ suspended' = suspended \ {f}
    /\ active_tokens' = track_token(f.access_token, f.username, f.session_id)
    /\ issued' = issued \cup
            {[access_token |-> f.access_token, refresh_token |-> f.refresh_token,
              csrf_token |-> f.csrf_token, session_id |-> f.session_id,
              user_id |-> f.username, by |-> "login"]}
    /\ result' = [op |-> "login", username |-> f.username, password |-> f.password,
                  success |-> TRUE, error_message |-> NoError,
                  raised |-> NoException, escaped |-> escapes(NoException),
                  access_token |-> f.access_token, refresh_token |-> f.refresh_token,
                  csrf_token |-> f.csrf_token, session_id |-> f.session_id]
    /\ UNCHANGED <<now, pool, cleanup_task, access_token_expire, users, sessions,
                   next_session, login_logs, events>>

NextInterleave ==
    \/ \E u \in UserIds, p \in LoginPasswords : login_begin(u, p)
    \/ \E f \in suspended : login_finish(f)
    \/ \E r \in issued : validate_token_read(r.access_token, FALSE, NoCsrf)
    \/ \E f \in suspended : validate_token_write(f)
    \/ \E s \in DOMAIN sessions : revoke_session(s)
    \/ \E u \in UserIds : logout_all_sessions(u)
    \/ Tick

SpecInterleave == Init /\ [][NextInterleave]_vars

-----------------------------------------------------------------------------
(* Properties of SpecInterleave *)

\* C35: when validate_token's touch of a session (read the row, set
\* last_activity, write it back) runs concurrently with a revocation of the
\* same session, the row ends with is_active = false: no step, the write-back
\* of a touch that read the row before the revocation included, turns a
\* revoked session active again.
C35_TouchNeverRevivesRevokedSession ==
    [][\A s \in DOMAIN sessions \cap DOMAIN sessions' :
            ~sessions[s].is_active => ~sessions'[s].is_active]_vars

C35_Witness ==
    /\ result.op = "validate_token"
    /\ "session_obj" \in DOMAIN result
    /\ result.session_obj.is_active
    /\ result.token.session_id \in DOMAIN sessions
    /\ ~sessions[result.token.session_id].is_active
    /\ sessions[result.token.session_id].last_activity = result.session_obj.last_activity
    /\ result.session_obj.last_activity > 0

\* validate_token would accept the access token the last call, a login, returned
LoginTokenAccepted ==
    /\ result.op = "login"
    /\ result.success
    /\ validate_token_result(result.access_token, FALSE, NoCsrf).valid

\* C36: when logout_all_sessions(u) runs while a login for u is suspended at
\* an await with its session already created, the access token that login
\* returns is not accepted by validate_token once both have finished.
C36_SuspendedLoginTokenDeadAfterLogoutAll ==
    [][(/\ result.op = "logout_all_sessions"
        /\ result'.op = "login"
        /\ result'.success
        /\ result'.username = result.user_id)
          => ~LoginTokenAccepted']_vars

====
